---- MODULE Spec2Model ----
(***************************************************************************)
(* GitLab MCP server: the tool handlers of src/src/index.ts (McpServer,    *)
(* server.tool with Zod schemas) and the CallToolRequestSchema handler of  *)
(* the earlier low-level Server build (src/unnamed/part_000).              *)
(*                                                                         *)
(* A string that is inserted into a request path is a sequence of          *)
(* characters; the literal pieces of a path template ("projects",          *)
(* "issues", ...) are single tokens without reserved characters and "/"    *)
(* is the separator token.  Message texts are TLA+ strings.                *)
(***************************************************************************)
EXTENDS Integers, Sequences, FiniteSets, TLC

VARIABLES pc, call, request, outcome, result, fault, log, proc, caller, loop

vars == <<pc, call, request, outcome, result, fault, log, proc, caller, loop>>

(* ---------------------------------------------------------------- bounds *)

\* number of invocations the host may have in flight at once
MaxCalls == 2

\* longest projectId / slug the caller supplies
MaxIdLen == 2

\* most pages of a remote listing that a caller reads page by page
MaxRemotePages == 3

\* largest page number the caller supplies
MaxPage == 2

Calls == 1..MaxCalls

(* --------------------------------------------------------------- strings *)

\* a UTF-16 code unit that is half of a surrogate pair, on its own
LoneSurrogate == "\\uD800"

Unreserved == {"a", "9"}

Alphabet == Unreserved \cup {"/", "%", LoneSurrogate}

StrUpTo(n) == UNION {[1..k -> Alphabet] : k \in 0..n}

PercentOf(ch) ==
  CASE ch = "/" -> <<"%", "2", "F">>
    [] ch = "%" -> <<"%", "2", "5">>
    [] OTHER    -> <<ch>>

\* encodeURIComponent raises URIError on a lone surrogate
URIMalformed(s) == \E i \in 1..Len(s) : s[i] = LoneSurrogate

RECURSIVE encodeURIComponent(_)
encodeURIComponent(s) ==
  IF s = <<>> THEN <<>>
  ELSE PercentOf(Head(s)) \o encodeURIComponent(Tail(s))

CharOf(h1, h2) ==
  CASE h1 = "2" /\ h2 = "F" -> "/"
    [] h1 = "2" /\ h2 = "5" -> "%"
    [] OTHER                -> "?"

RECURSIVE decodeURIComponent(_)
decodeURIComponent(s) ==
  IF s = <<>> THEN <<>>
  ELSE IF Head(s) = "%" /\ Len(s) >= 3
       THEN <<CharOf(s[2], s[3])>> \o decodeURIComponent(SubSeq(s, 4, Len(s)))
       ELSE <<Head(s)>> \o decodeURIComponent(Tail(s))

\* the path segments of a request path: the pieces between "/" separators
RECURSIVE Segments(_)
Segments(p) ==
  IF \A i \in 1..Len(p) : p[i] # "/" THEN <<p>>
  ELSE LET i == CHOOSE j \in 1..Len(p) :
                  p[j] = "/" /\ \A k \in 1..(j - 1) : p[k] # "/"
       IN  <<SubSeq(p, 1, i - 1)>> \o Segments(SubSeq(p, i + 1, Len(p)))

(* ------------------------------------------------------------- arguments *)

\* an argument bag is a function from the supplied argument names to values
NoArgs == [k \in {} |-> TRUE]

Has(args, k) == k \in DOMAIN args

Merge(f, g) ==
  [k \in (DOMAIN f) \cup (DOMAIN g) |-> IF k \in DOMAIN g THEN g[k] ELSE f[k]]

Without(f, k) == [j \in (DOMAIN f) \ {k} |-> f[j]]

Only(f, ks) == [j \in (DOMAIN f) \cap ks |-> f[j]]

\* the first page, whatever page is asked for
PageAlwaysOne(args) == 1

\* args.page || 1
PageOrOne(args) ==
  IF Has(args, "page") /\ args["page"] # 0 THEN args["page"] ELSE 1

\* page || 1   (the default applies to every falsy page)
PageDefaultOrOne(args) ==
  IF Has(args, "page") /\ args["page"] # 0 THEN args["page"] ELSE 1

\* page: number = 1   (the default applies only when page is undefined)
PageDefault(args) == IF Has(args, "page") THEN args["page"] ELSE 1

Tools ==
  {"list_projects", "get_issues", "get_issue_notes", "search",
   "get_issue", "get_todos", "get_wiki_page", "list_wiki_pages"}

(* -------------------------------------------------------- request builder *)

\* the paths below are relative to the client's baseURL, `${GITLAB_HOST}/api/v4`
Get(path, params) == [path |-> path, params |-> params]

\* the ordering parameters are sent with the first page only
listProjectsRequestFirstPage(args) ==
  Get(<<"projects">>,
      IF PageOrOne(args) = 1
      THEN [per_page |-> 100, page |-> 1, order_by |-> "id", sort |-> "asc",
            simple |-> TRUE]
      ELSE [per_page |-> 100, page |-> PageOrOne(args)])

listProjectsRequest(args) ==
  Get(<<"projects">>,
      [per_page |-> 100, page |-> PageOrOne(args), order_by |-> "id",
       sort |-> "asc", simple |-> TRUE])

\* args.project_id ? `projects/${args.project_id}/issues` : "issues"
getIssuesEndpoint(args) ==
  IF Has(args, "project_id") /\ args["project_id"] # 0
  THEN <<"projects", "/", ToString(args["project_id"]), "/", "issues">>
  ELSE <<"issues">>

getIssuesRequest(args) ==
  Get(getIssuesEndpoint(args),
      Without(Merge(args, [per_page |-> 100, page |-> PageOrOne(args)]),
              "project_id"))

getIssueNotesRequest(args) ==
  Get(<<"projects", "/">> \o encodeURIComponent(args["projectId"])
        \o <<"/", "issues", "/">> \o args["issueIid"] \o <<"/", "notes">>,
      [per_page |-> 100, page |-> PageDefault(args), sort |-> "asc",
       order_by |-> "created_at"])

\* projectId ? `projects/${encodeURIComponent(projectId)}/search` : "search"
searchEndpoint(args) ==
  IF Has(args, "projectId") /\ args["projectId"] # <<>>
  THEN <<"projects", "/">> \o encodeURIComponent(args["projectId"])
         \o <<"/", "search">>
  ELSE <<"search">>

\* the project is named by a query parameter of the global search
searchRequestProjectParam(args) ==
  Get(<<"search">>,
      Merge([scope |-> args["scope"], search |-> args["search"],
             page |-> PageDefault(args), per_page |-> 100],
            Only(args, {"projectId"})))

searchRequest(args) ==
  Get(searchEndpoint(args),
      [scope |-> args["scope"], search |-> args["search"],
       page |-> PageDefault(args), per_page |-> 100])

getIssueRequest(args) ==
  Get(<<"projects", "/">> \o encodeURIComponent(args["projectId"])
        \o <<"/", "issues", "/">> \o args["issueIid"],
      NoArgs)

\* the page size is left to the remote's default
getTodosRequestPageOnly(args) ==
  Get(<<"todos">>, Merge(args, [page |-> PageOrOne(args)]))

getTodosRequest(args) ==
  Get(<<"todos">>, Merge(args, [page |-> PageOrOne(args), per_page |-> 100]))

\* the projectId is inserted as supplied; only the slug is encoded
getWikiPageRequest(args) ==
  Get(<<"projects", "/">> \o args["projectId"] \o <<"/", "wikis", "/">>
        \o encodeURIComponent(args["slug"]),
      Only(args, {"render_html", "version"}))

\* the projectId is inserted as supplied
listWikiPagesRequest(args) ==
  Get(<<"projects", "/">> \o args["projectId"] \o <<"/", "wikis">>,
      Merge(Only(args, {"with_content"}),
            [page |-> PageDefault(args), per_page |-> 100]))

\* the strings a handler passes to encodeURIComponent while it builds its path
EncodedArgs(tool, args) ==
  CASE tool \in {"get_issue_notes", "get_issue"} -> {args["projectId"]}
    [] tool = "search" ->
         IF Has(args, "projectId") /\ args["projectId"] # <<>>
         THEN {args["projectId"]} ELSE {}
    [] tool = "get_wiki_page" -> {args["slug"]}
    [] OTHER -> {}

\* building the request raises (URIError) before axiosInstance.get is called
BuildThrows(tool, args) == \E s \in EncodedArgs(tool, args) : URIMalformed(s)

RequestOf(tool, args) ==
  CASE tool = "list_projects"   -> listProjectsRequest(args)
    [] tool = "get_issues"      -> getIssuesRequest(args)
    [] tool = "get_issue_notes" -> getIssueNotesRequest(args)
    [] tool = "search"          -> searchRequest(args)
    [] tool = "get_issue"       -> getIssueRequest(args)
    [] tool = "get_todos"       -> getTodosRequest(args)
    [] tool = "get_wiki_page"   -> getWikiPageRequest(args)
    [] tool = "list_wiki_pages" -> listWikiPagesRequest(args)

(* ------------------------------------------------------- result envelopes *)

\* a message text as it stands
Plain(s) == [fmt |-> "plain", body |-> s]

\* JSON.stringify(v, null, 2); object members whose value is undefined are
\* left out of the text, so v holds the defined members only
Json(v) == [fmt |-> "json", body |-> v]

\* { content: [{ type: "text", text }, { type: "text", text: "" }] }
SuccessTwoBlocks(text) ==
  [content |-> <<[type |-> "text", text |-> text],
                 [type |-> "text", text |-> Plain("")]>>]

\* { content: [{ type: "text", text }] }   (no isError member)
Success(text) == [content |-> <<[type |-> "text", text |-> text]>>]

\* { content: [{ type: "text", text }] }   (the error flag is left out)
FailureUnflagged(text) == [content |-> <<[type |-> "text", text |-> text]>>]

\* { content: [{ type: "text", text }], isError: true }
Failure(text) ==
  [content |-> <<[type |-> "text", text |-> text]>>, isError |-> TRUE]

IsError(env) == "isError" \in DOMAIN env /\ env["isError"] = TRUE

TextOf(env) == env["content"][1]["text"]

(* ----------------------------------------------------------------- errors *)

\* what the awaited axios call, or the code around it, can raise
AxiosStatusError(status, hasBodyMessage, bodyMessage) ==
  [isAxiosError |-> TRUE, hasResponse |-> TRUE, status |-> status,
   hasBodyMessage |-> hasBodyMessage, bodyMessage |-> bodyMessage,
   name |-> "AxiosError",
   message |-> "Request failed with status code " \o ToString(status)]

AxiosNetworkError(message) ==
  [isAxiosError |-> TRUE, hasResponse |-> FALSE, status |-> 0,
   hasBodyMessage |-> FALSE, bodyMessage |-> "",
   name |-> "AxiosError", message |-> message]

JsError(name, message) ==
  [isAxiosError |-> FALSE, hasResponse |-> FALSE, status |-> 0,
   hasBodyMessage |-> FALSE, bodyMessage |-> "",
   name |-> name, message |-> message]

\* `${error}` for an Error object
ErrorToString(error) == error.name \o ": " \o error.message

\* error.message ?? error.response?.data?.message
errorMessageTransportFirst(error) == error.message

\* error.response?.data?.message ?? error.message
errorMessage(error) ==
  IF error.hasResponse /\ error.hasBodyMessage
  THEN error.bodyMessage ELSE error.message

\* the 401 branch left out
specificMessageNo401(error) ==
  IF error.hasResponse /\ error.status = 403
  THEN "Forbidden: You don't have permission to access this resource."
  ELSE IF error.hasResponse /\ error.status = 404
  THEN "Not Found: The requested resource was not found."
  ELSE "GitLab API error: " \o errorMessage(error)

\* the 404 branch left out
specificMessageNo404(error) ==
  IF error.hasResponse /\ error.status = 401
  THEN "Unauthorized: Please check your GitLab API token."
  ELSE IF error.hasResponse /\ error.status = 403
  THEN "Forbidden: You don't have permission to access this resource."
  ELSE "GitLab API error: " \o errorMessage(error)

specificMessage(error) ==
  IF error.hasResponse /\ error.status = 401
  THEN "Unauthorized: Please check your GitLab API token."
  ELSE IF error.hasResponse /\ error.status = 403
  THEN "Forbidden: You don't have permission to access this resource."
  ELSE IF error.hasResponse /\ error.status = 404
  THEN "Not Found: The requested resource was not found."
  ELSE "GitLab API error: " \o errorMessage(error)

\* errors are told apart by error.response instead of axios.isAxiosError
handleApiErrorByResponse(error) ==
  IF error.hasResponse
  THEN Failure(Plain(specificMessage(error)))
  ELSE Failure(Plain("An unexpected error occurred: " \o ErrorToString(error)))

handleApiError(error) ==
  IF error.isAxiosError
  THEN Failure(Plain(specificMessage(error)))
  ELSE Failure(Plain("An unexpected error occurred: " \o ErrorToString(error)))

\* console.error("Unexpected error:", error) on the non-axios branch only
handleApiErrorLog(error) ==
  IF error.isAxiosError THEN <<>> ELSE <<ErrorToString(error)>>

(* ------------------------------------------------------------- pagination *)

HeaderNames == {"x-page", "x-per-page", "x-total-pages", "x-total", "x-next-page"}

Digits == {"0", "1", "2", "3", "4", "5", "6", "7", "8", "9"}

DigitVal(ch) ==
  CASE ch = "0" -> 0 [] ch = "1" -> 1 [] ch = "2" -> 2 [] ch = "3" -> 3
    [] ch = "4" -> 4 [] ch = "5" -> 5 [] ch = "6" -> 6 [] ch = "7" -> 7
    [] ch = "8" -> 8 [] ch = "9" -> 9

\* the value of a non-empty sequence of digits
RECURSIVE DecimalOf(_)
DecimalOf(ds) ==
  IF ds = <<>> THEN 0
  ELSE 10 * DecimalOf(SubSeq(ds, 1, Len(ds) - 1)) + DigitVal(ds[Len(ds)])

\* the longest prefix of s made of digits
RECURSIVE DigitPrefix(_)
DigitPrefix(s) ==
  IF s = <<>> \/ Head(s) \notin Digits THEN <<>>
  ELSE <<Head(s)>> \o DigitPrefix(Tail(s))

\* parseInt(s, 10): an optional sign, then the leading digits; NaN without any
parseInt(s) ==
  LET neg  == s # <<>> /\ Head(s) = "-"
      rest == IF neg THEN Tail(s) ELSE s
      ds   == DigitPrefix(rest)
  IN  IF ds = <<>> THEN [nan |-> TRUE, n |-> 0]
      ELSE [nan |-> FALSE, n |-> IF neg THEN 0 - DecimalOf(ds) ELSE DecimalOf(ds)]

\* headers[name] || "0"
HeaderOrZero(headers, name, dflt) ==
  IF name \in DOMAIN headers /\ headers[name] # <<>> THEN headers[name] ELSE <<"0">>

\* headers[name] || dflt
HeaderOr(headers, name, dflt) ==
  IF name \in DOMAIN headers /\ headers[name] # <<>> THEN headers[name] ELSE dflt

\* isNaN(x) ? undefined : x  -- is the member defined
NotNaN(x) == ~x.nan

\* x > 0 ? x : undefined  -- is the member defined
Positive(x) == ~x.nan /\ x.n > 0

\* every member is written only when its header parses to a positive number
paginationOfPositiveOnly(headers) ==
  LET all == [current_page |-> parseInt(HeaderOr(headers, "x-page", <<"0">>)),
              per_page |-> parseInt(HeaderOr(headers, "x-per-page", <<"0">>)),
              total_pages |-> parseInt(HeaderOr(headers, "x-total-pages", <<"0">>)),
              total_items |-> parseInt(HeaderOr(headers, "x-total", <<"0">>)),
              next_page |-> parseInt(HeaderOr(headers, "x-next-page", <<"0">>))]
  IN  [num  |-> [k \in {j \in DOMAIN all : Positive(all[j])} |-> all[k].n],
       null |-> {}]

\* The pagination object as JSON.stringify writes it: num holds the members
\* written as numbers; null holds the members written as null (NaN is
\* written as null); an undefined member is in neither.
paginationOf(headers) ==
  LET page       == parseInt(HeaderOr(headers, "x-page", <<"1">>))
      perPage    == parseInt(HeaderOr(headers, "x-per-page", <<"2", "0">>))
      totalPages == parseInt(HeaderOr(headers, "x-total-pages", <<"0">>))
      totalItems == parseInt(HeaderOr(headers, "x-total", <<"0">>))
      nextPage   == parseInt(HeaderOr(headers, "x-next-page", <<"0">>))
      all == [current_page |-> page, per_page |-> perPage,
              total_pages |-> totalPages, total_items |-> totalItems,
              next_page |-> nextPage]
      defined == {"current_page", "per_page"}
                   \cup {k \in {"total_pages", "total_items", "next_page"} :
                           Positive(all[k])}
  IN  [num  |-> [k \in {j \in defined : ~all[j].nan} |-> all[k].n],
       null |-> {k \in defined : all[k].nan}]

createPaginatedResponse(data, headers) ==
  Success(Json([data |-> data, pagination |-> paginationOf(headers)]))

(* ---------------------------------------------------------------- shaping *)

\* the members of object o among the keys ks (an absent member is undefined
\* and JSON.stringify leaves it out)
Pick(o, ks) == [k \in ks \cap DOMAIN o |-> o[k]]

\* the JSON literal null, as written for an undefined array element
JsonNull == "null"

MapSeq(f(_), xs) == [i \in 1..Len(xs) |-> f(xs[i])]

\* the remote object as it is
shapeProjectWhole(project) == project

shapeProject(project) ==
  Pick(project, {"id", "name", "web_url", "path_with_namespace"})

\* a.username inside issue.assignees?.map(...)
assigneeUsername(a) == IF "username" \in DOMAIN a THEN a["username"] ELSE JsonNull

\* author: issue.author?.name -- the display name in place of the username
shapeIssueAuthorName(issue) ==
  LET base == Pick(issue, {"id", "iid", "project_id", "title", "state",
                           "web_url", "created_at", "updated_at", "labels"})
      author == IF "author" \in DOMAIN issue /\ "name" \in DOMAIN issue["author"]
                THEN [author |-> issue["author"]["name"]] ELSE NoArgs
      assignees == IF "assignees" \in DOMAIN issue
                   THEN [assignees |-> MapSeq(assigneeUsername, issue["assignees"])]
                   ELSE NoArgs
  IN  Merge(Merge(base, author), assignees)

shapeIssue(issue) ==
  LET base == Pick(issue, {"id", "iid", "project_id", "title", "state",
                           "web_url", "created_at", "updated_at", "labels"})
      author == IF "author" \in DOMAIN issue /\ "username" \in DOMAIN issue["author"]
                THEN [author |-> issue["author"]["username"]] ELSE NoArgs
      assignees == IF "assignees" \in DOMAIN issue
                   THEN [assignees |-> MapSeq(assigneeUsername, issue["assignees"])]
                   ELSE NoArgs
  IN  Merge(Merge(base, author), assignees)

\* note.author?.username never raises
shapeNoteLenient(note) == FALSE

\* note.author.username raises TypeError when the note has no author
shapeNoteThrows(note) == "author" \notin DOMAIN note

shapeNote(note) ==
  LET base == Pick(note, {"id", "body", "created_at", "updated_at", "system",
                          "resolvable", "confidential"})
      author == IF "author" \in DOMAIN note /\ "username" \in DOMAIN note["author"]
                THEN [author |-> note["author"]["username"]] ELSE NoArgs
  IN  Merge(base, author)

ShapedTools == {"list_projects", "get_issues", "get_issue_notes"}

PaginatedTools == ShapedTools \cup {"search", "get_todos", "list_wiki_pages"}

\* response.data.map(...) raises TypeError when the body is not an array
ShapeThrows(tool, data) ==
  /\ tool \in ShapedTools
  /\ \/ ~data.isArray
     \/ /\ tool = "get_issue_notes"
        /\ \E i \in 1..Len(data.items) : shapeNoteThrows(data.items[i])

ShapeError(tool, data) ==
  IF ~data.isArray
  THEN JsError("TypeError", "response.data.map is not a function")
  ELSE JsError("TypeError",
               "Cannot read properties of undefined (reading 'username')")

ArrayData(items) == [isArray |-> TRUE, items |-> items, object |-> NoArgs]

ObjectData(o) == [isArray |-> FALSE, items |-> <<>>, object |-> o]

\* every tool keeps the four project members of what the remote sent
SuccessOfSummaries(tool, response) ==
  IF tool \in PaginatedTools
  THEN createPaginatedResponse(
         ArrayData(MapSeq(shapeProject, response.data.items)), response.headers)
  ELSE Success(Json(ObjectData(shapeProject(response.data.object))))

\* what the handler returns for a fulfilled request (status 2xx)
SuccessOf(tool, response) ==
  CASE tool = "list_projects" ->
         createPaginatedResponse(
           ArrayData(MapSeq(shapeProject, response.data.items)), response.headers)
    [] tool = "get_issues" ->
         createPaginatedResponse(
           ArrayData(MapSeq(shapeIssue, response.data.items)), response.headers)
    [] tool = "get_issue_notes" ->
         createPaginatedResponse(
           ArrayData(MapSeq(shapeNote, response.data.items)), response.headers)
    [] tool \in {"search", "get_todos", "list_wiki_pages"} ->
         createPaginatedResponse(response.data, response.headers)
    [] tool \in {"get_issue", "get_wiki_page"} ->
         Success(Json(response.data))

(* ----------------------------------------------------------------- inputs *)

Ids == StrUpTo(MaxIdLen)

Pages == 0..MaxPage

PageBags == {NoArgs} \cup {[page |-> p] : p \in Pages}

\* every bag that takes one member of each of the given sets of bags
Bags2(A, B) == {Merge(a, b) : a \in A, b \in B}

Bags3(A, B, C) == Bags2(Bags2(A, B), C)

\* argument bags that pass the tool's Zod schema
Args(tool) ==
  CASE tool = "list_projects" -> PageBags
    [] tool = "get_issues" ->
         Bags3({NoArgs, [project_id |-> 0], [project_id |-> 7]},
               {NoArgs, [state |-> "done"]}, PageBags)
    [] tool = "get_todos" ->
         Bags3({NoArgs, [project_id |-> 7]}, {NoArgs, [action |-> "assigned"]},
               PageBags)
    [] tool = "get_issue_notes" ->
         Bags2({[projectId |-> id, issueIid |-> <<"5">>] : id \in Ids}, PageBags)
    [] tool = "search" ->
         Bags3({NoArgs} \cup {[projectId |-> id] : id \in Ids},
               {[scope |-> "issues", search |-> "login bug"]}, PageBags)
    [] tool = "get_issue" ->
         {[projectId |-> id, issueIid |-> <<"5">>] : id \in Ids}
    [] tool = "get_wiki_page" ->
         Bags2({[projectId |-> id, slug |-> <<"a">>] : id \in Ids}
                 \cup {[projectId |-> <<"9">>, slug |-> id] : id \in Ids},
               {NoArgs, [render_html |-> TRUE]})
    [] tool = "list_wiki_pages" ->
         Bags3({[projectId |-> id] : id \in Ids},
               {NoArgs, [with_content |-> TRUE]}, PageBags)

\* a few argument bags per tool, for the runs with several calls in flight
FewArgs(tool) ==
  CASE tool = "list_projects" -> {NoArgs, [page |-> 2]}
    [] tool = "get_issues" -> {[project_id |-> 7]}
    [] tool = "get_todos" -> {NoArgs}
    [] tool = "get_issue_notes" ->
         {[projectId |-> <<"9">>, issueIid |-> <<"5">>]}
    [] tool = "search" -> {[scope |-> "issues", search |-> "login bug"]}
    [] tool = "get_issue" ->
         {[projectId |-> <<"a", "/">>, issueIid |-> <<"5">>],
          [projectId |-> <<LoneSurrogate>>, issueIid |-> <<"5">>]}
    [] tool = "get_wiki_page" -> {[projectId |-> <<"9">>, slug |-> <<"a">>]}
    [] tool = "list_wiki_pages" -> {[projectId |-> <<"9">>]}

NoHeaders == [k \in {} |-> <<>>]

AllHeaders ==
  [k \in HeaderNames |->
     CASE k = "x-page" -> <<"1">>
       [] k = "x-per-page" -> <<"1", "0", "0">>
       [] k = "x-total-pages" -> <<"3">>
       [] k = "x-total" -> <<"2", "1", "0">>
       [] k = "x-next-page" -> <<"2">>]

\* the last page of a listing: x-next-page is sent empty
LastPageHeaders == [AllHeaders EXCEPT !["x-page"] = <<"3">>, !["x-next-page"] = <<>>]

SomeHeaders == {NoHeaders, AllHeaders, LastPageHeaders}

User(u) == [username |-> u, name |-> "N", id |-> 3]

RemoteProject1 ==
  [id |-> 1, name |-> "n1", web_url |-> "w1", path_with_namespace |-> "g/p",
   description |-> "d1"]

RemoteProject2 == [id |-> 2, name |-> "n2"]

RemoteIssue1 ==
  [id |-> 10, iid |-> 1, project_id |-> 7, title |-> "t1", state |-> "opened",
   web_url |-> "w1", created_at |-> "c1", updated_at |-> "u1",
   author |-> User("ann"), assignees |-> <<User("bob"), User("cy")>>,
   labels |-> <<"bug">>, description |-> "d1"]

RemoteIssue2 == [id |-> 11, iid |-> 2, title |-> "t2"]

RemoteNote1 ==
  [id |-> 20, body |-> "b1", author |-> User("ann"), created_at |-> "c1",
   updated_at |-> "u1", system |-> FALSE, resolvable |-> FALSE,
   confidential |-> FALSE, noteable_id |-> 10]

\* a note without author
RemoteNote2 == [id |-> 21, body |-> "b2"]

RemoteObject == [id |-> 30, title |-> "t", content |-> "c"]

\* a body that is not a list
NotAList == ObjectData([message |-> "m"])

Lists(a, b) == {ArrayData(<<>>), ArrayData(<<a>>), ArrayData(<<a, b>>)}

\* response bodies the remote may send with a 2xx status
Bodies(tool) ==
  CASE tool = "list_projects" -> Lists(RemoteProject1, RemoteProject2) \cup {NotAList}
    [] tool = "get_issues" -> Lists(RemoteIssue1, RemoteIssue2) \cup {NotAList}
    [] tool = "get_issue_notes" -> Lists(RemoteNote1, RemoteNote2) \cup {NotAList}
    [] tool \in {"search", "get_todos", "list_wiki_pages"} ->
         Lists(RemoteObject, RemoteProject2) \cup {NotAList}
    [] tool \in {"get_issue", "get_wiki_page"} ->
         {ObjectData(RemoteObject), ObjectData(RemoteIssue1)}
    [] OTHER -> {}

Fulfilled(headers, data) ==
  [kind |-> "response", status |-> 200, headers |-> headers, data |-> data,
   error |-> JsError("none", "")]

Rejected(error) ==
  [kind |-> "error", status |-> error.status, headers |-> NoHeaders,
   data |-> ArrayData(<<>>), error |-> error]

FailureStatuses == {400, 401, 403, 404, 500}

\* how the awaited axiosInstance.get can settle
Rejections ==
  {Rejected(AxiosStatusError(st, FALSE, "")) : st \in FailureStatuses}
    \cup {Rejected(AxiosStatusError(st, TRUE, "denied")) : st \in FailureStatuses}
    \cup {Rejected(AxiosNetworkError("Network Error"))}

Outcomes(tool) ==
  {Fulfilled(h, d) : h \in SomeHeaders, d \in Bodies(tool)} \cup Rejections

FewOutcomes(tool) ==
  {Fulfilled(AllHeaders, d) : d \in Bodies(tool)}
    \cup {Rejected(AxiosStatusError(401, TRUE, "denied")),
          Rejected(AxiosNetworkError("Network Error"))}

(* ------------------------------------------------------------------ state *)

\* hasArguments: the call carries an arguments object
NoCall == [tool |-> "none", hasArguments |-> FALSE, args |-> NoArgs]

NoOutcome ==
  [kind |-> "none", status |-> 0, headers |-> NoHeaders,
   data |-> ArrayData(<<>>), error |-> JsError("none", "")]

\* an environment variable: unset, or set to a value
Unset == [set |-> FALSE, value |-> ""]

EnvOf(v) == [set |-> TRUE, value |-> v]

\* !API_TOKEN, !GITLAB_HOST: undefined and the empty string are falsy
Missing(e) == ~e.set \/ e.value = ""

\* the axios instance: not yet created
NoClient == [built |-> FALSE, baseURL |-> "", privateToken |-> ""]

\* axios.create({ baseURL: `${GITLAB_HOST}/api/v4`,
\*                headers: { "Private-Token": API_TOKEN } })
CreateClient(host, token) ==
  [built |-> TRUE, baseURL |-> host.value \o "/api/v4", privateToken |-> token.value]

\* The process: phase is where the module's top-level code stands, registered
\* says the tool handlers are set up, connected says the protocol connection
\* over stdio is open, exit is how the process ended ("none" while it lives).
Process(phase, token, host) ==
  [phase |-> phase, token |-> token, host |-> host, client |-> NoClient,
   registered |-> FALSE, connected |-> FALSE, exit |-> "none"]

\* the server once `new GitlabServer()` and run() are through
Running(token, host) ==
  [Process("running", token, host) EXCEPT
     !.client = CreateClient(host, token), !.registered = TRUE,
     !.connected = TRUE]

\* tool calls are delivered over the open connection
Serving == proc.phase = "running" /\ proc.connected

\* the process lives: the event loop runs the handlers' continuations
Alive == proc.phase = "running" /\ proc.exit = "none"

\* the locals of a handler that fetches page after page: the page it asks
\* for, the number of pages it goes up to, the items it has so far
Locals(page, totalPages, items) ==
  [page |-> page, totalPages |-> totalPages, items |-> items]

\* let page = 1; let totalPages = 1; let projects = []
FirstPage == Locals(1, [nan |-> FALSE, n |-> 1], <<>>)

NoSlots ==
  /\ loop = [c \in Calls |-> FirstPage]
  /\ pc = [c \in Calls |-> "idle"]
  /\ call = [c \in Calls |-> NoCall]
  /\ request = [c \in Calls |-> <<>>]
  /\ outcome = [c \in Calls |-> NoOutcome]
  /\ result = [c \in Calls |-> <<>>]
  /\ fault = [c \in Calls |-> "none"]
  /\ log = [c \in Calls |-> <<>>]

\* the program at the other end of the connection: n is the number of pages
\* of the listing it reads, total says whether the remote sends
\* x-total-pages, next is the page it asks for next, received holds what it
\* was given, done says it has stopped
Caller(tool, n, total) ==
  [tool |-> tool, n |-> n, total |-> total, next |-> 1, received |-> <<>>,
   done |-> FALSE]

\* a caller that reads no listing
NoCaller == Caller("none", 0, FALSE)

Init ==
  /\ caller = NoCaller
  /\ loop = [c \in Calls |-> FirstPage]
  /\ proc = Running(EnvOf("glpat"), EnvOf("https://gitlab.example"))
  /\ pc = [c \in Calls |-> "idle"]
  /\ call = [c \in Calls |-> NoCall]
  /\ request = [c \in Calls |-> <<>>]
  /\ outcome = [c \in Calls |-> NoOutcome]
  /\ result = [c \in Calls |-> <<>>]
  /\ fault = [c \in Calls |-> "none"]
  /\ log = [c \in Calls |-> <<>>]

(* ------------------------------------------- src/src/index.ts: the handlers *)

\* the handlers share one arguments object: a call that starts while another
\* call of the same tool is outstanding sends that call's request again
InvokeSharedArguments(c, tool, args) ==
  /\ Serving
  /\ pc[c] = "idle"
  /\ call' = [call EXCEPT
                ![c] = [tool |-> tool, hasArguments |-> TRUE, args |-> args]]
  /\ LET others == {d \in Calls \ {c} : pc[d] = "awaiting" /\ call[d].tool = tool}
         used == IF others = {} THEN args
                 ELSE call[CHOOSE d \in others : TRUE].args
     IN  IF BuildThrows(tool, used)
         THEN LET error == JsError("URIError", "URI malformed")
              IN  /\ result' = [result EXCEPT ![c] = Append(@, handleApiError(error))]
                  /\ log' = [log EXCEPT ![c] = @ \o handleApiErrorLog(error)]
                  /\ pc' = [pc EXCEPT ![c] = "returned"]
                  /\ UNCHANGED request
         ELSE /\ request' = [request EXCEPT ![c] = Append(@, RequestOf(tool, used))]
              /\ pc' = [pc EXCEPT ![c] = "awaiting"]
              /\ UNCHANGED <<result, log>>
  /\ UNCHANGED <<outcome, fault>>
  /\ UNCHANGED <<proc, caller, loop>>

\* The callback registered with server.tool runs with validated arguments:
\* the handler builds its path and parameters and calls axiosInstance.get;
\* when building the path raises, the catch block answers at once.
Invoke(c, tool, args) ==
  /\ Serving
  /\ pc[c] = "idle"
  /\ call' = [call EXCEPT
                ![c] = [tool |-> tool, hasArguments |-> TRUE, args |-> args]]
  /\ IF BuildThrows(tool, args)
     THEN LET error == JsError("URIError", "URI malformed")
          IN  /\ result' = [result EXCEPT ![c] = Append(@, handleApiError(error))]
              /\ log' = [log EXCEPT ![c] = @ \o handleApiErrorLog(error)]
              /\ pc' = [pc EXCEPT ![c] = "returned"]
              /\ UNCHANGED request
     ELSE /\ request' = [request EXCEPT ![c] = Append(@, RequestOf(tool, args))]
          /\ pc' = [pc EXCEPT ![c] = "awaiting"]
          /\ UNCHANGED <<result, log>>
  /\ UNCHANGED <<outcome, fault>>
  /\ UNCHANGED <<proc, caller, loop>>

\* the error the try block ends with, for the way the request settled
ErrorOf(tool, o) ==
  IF o.kind = "error" THEN o.error ELSE ShapeError(tool, o.data)

Caught(tool, o) == o.kind = "error" \/ ShapeThrows(tool, o.data)

\* the catch block passes on what is not an axios error (`throw error`)
SettleRethrow(c, o) ==
  /\ Alive
  /\ pc[c] = "awaiting"
  /\ outcome' = [outcome EXCEPT ![c] = o]
  /\ LET tool == call[c].tool
     IN  IF Caught(tool, o)
         THEN IF ErrorOf(tool, o).isAxiosError
              THEN /\ result' = [result EXCEPT
                                   ![c] = Append(@, handleApiError(ErrorOf(tool, o)))]
                   /\ pc' = [pc EXCEPT ![c] = "returned"]
                   /\ UNCHANGED fault
              ELSE /\ fault' = [fault EXCEPT ![c] = "InternalError"]
                   /\ pc' = [pc EXCEPT ![c] = "faulted"]
                   /\ UNCHANGED result
         ELSE /\ result' = [result EXCEPT ![c] = Append(@, SuccessOf(tool, o))]
              /\ pc' = [pc EXCEPT ![c] = "returned"]
              /\ UNCHANGED fault
  /\ UNCHANGED <<call, request, log>>
  /\ UNCHANGED <<proc, caller, loop>>

\* a response that announces a next page makes the handler ask for that page
SettleFollow(c, o) ==
  /\ Alive
  /\ pc[c] = "awaiting"
  /\ outcome' = [outcome EXCEPT ![c] = o]
  /\ LET tool == call[c].tool
         more == /\ o.kind = "response"
                 /\ tool \in PaginatedTools
                 /\ Len(request[c]) = 1
                 /\ Positive(parseInt(HeaderOr(o.headers, "x-next-page", <<"0">>)))
     IN  IF more
         THEN /\ request' = [request EXCEPT ![c] = Append(@, RequestOf(tool, call[c].args))]
              /\ UNCHANGED <<result, log, pc>>
         ELSE /\ IF Caught(tool, o)
                 THEN /\ result' = [result EXCEPT
                                      ![c] = Append(@, handleApiError(ErrorOf(tool, o)))]
                      /\ log' = [log EXCEPT ![c] = @ \o handleApiErrorLog(ErrorOf(tool, o))]
                 ELSE /\ result' = [result EXCEPT ![c] = Append(@, SuccessOf(tool, o))]
                      /\ UNCHANGED log
              /\ pc' = [pc EXCEPT ![c] = "returned"]
              /\ UNCHANGED request
  /\ UNCHANGED <<call, fault>>
  /\ UNCHANGED <<proc, caller, loop>>

\* the client is built with a timeout: a request that is still outstanding
\* may be given up, and the handler answers without any outcome
SettleOrTimeout(c, o) ==
  /\ Alive
  /\ pc[c] = "awaiting"
  /\ \/ /\ outcome' = [outcome EXCEPT ![c] = o]
        /\ LET tool == call[c].tool
           IN  IF Caught(tool, o)
               THEN /\ result' = [result EXCEPT
                                    ![c] = Append(@, handleApiError(ErrorOf(tool, o)))]
                    /\ log' = [log EXCEPT ![c] = @ \o handleApiErrorLog(ErrorOf(tool, o))]
               ELSE /\ result' = [result EXCEPT ![c] = Append(@, SuccessOf(tool, o))]
                    /\ UNCHANGED log
     \/ /\ result' = [result EXCEPT
                         ![c] = Append(@, handleApiError(
                                  AxiosNetworkError("timeout of 1000ms exceeded")))]
        /\ UNCHANGED <<outcome, log>>
  /\ pc' = [pc EXCEPT ![c] = "returned"]
  /\ UNCHANGED <<call, request, fault>>
  /\ UNCHANGED <<proc, caller, loop>>

\* the handlers share the last response body: a response is answered with
\* the body another invocation has received, when there is one
SettleLastResponse(c, o) ==
  /\ Alive
  /\ pc[c] = "awaiting"
  /\ outcome' = [outcome EXCEPT ![c] = o]
  /\ LET tool == call[c].tool
         others == {d \in Calls \ {c} :
                      outcome[d].kind = "response" /\ call[d].tool = tool}
         shared == IF others = {} THEN o
                   ELSE [o EXCEPT !.data = outcome[CHOOSE d \in others : TRUE].data]
     IN  IF Caught(tool, o)
         THEN /\ result' = [result EXCEPT
                              ![c] = Append(@, handleApiError(ErrorOf(tool, o)))]
              /\ log' = [log EXCEPT ![c] = @ \o handleApiErrorLog(ErrorOf(tool, o))]
         ELSE /\ result' = [result EXCEPT ![c] = Append(@, SuccessOf(tool, shared))]
              /\ UNCHANGED log
  /\ pc' = [pc EXCEPT ![c] = "returned"]
  /\ UNCHANGED <<call, request, fault>>
  /\ UNCHANGED <<proc, caller, loop>>

\* The awaited request settles and the handler runs to its return: it shapes
\* the response, or its catch block hands the error to handleApiError.
Settle(c, o) ==
  /\ Alive
  /\ pc[c] = "awaiting"
  /\ outcome' = [outcome EXCEPT ![c] = o]
  /\ LET tool == call[c].tool
     IN  IF Caught(tool, o)
         THEN /\ result' = [result EXCEPT
                              ![c] = Append(@, handleApiError(ErrorOf(tool, o)))]
              /\ log' = [log EXCEPT ![c] = @ \o handleApiErrorLog(ErrorOf(tool, o))]
         ELSE /\ result' = [result EXCEPT ![c] = Append(@, SuccessOf(tool, o))]
              /\ UNCHANGED log
  /\ pc' = [pc EXCEPT ![c] = "returned"]
  /\ UNCHANGED <<call, request, fault>>
  /\ UNCHANGED <<proc, caller, loop>>

\* the protocol layer sends the handler's outcome to the caller; the
\* invocation is over
Deliver(c) ==
  /\ Alive
  /\ pc[c] \in {"returned", "faulted"}
  /\ pc' = [pc EXCEPT ![c] = "idle"]
  /\ call' = [call EXCEPT ![c] = NoCall]
  /\ request' = [request EXCEPT ![c] = <<>>]
  /\ outcome' = [outcome EXCEPT ![c] = NoOutcome]
  /\ result' = [result EXCEPT ![c] = <<>>]
  /\ fault' = [fault EXCEPT ![c] = "none"]
  /\ log' = [log EXCEPT ![c] = <<>>]
  /\ UNCHANGED proc

\* the same, seen from a caller that keeps nothing of the answer
Reply(c) == Deliver(c) /\ UNCHANGED <<caller, loop>>

\* the host delivers one call at a time
Next ==
  \/ \E tool \in Tools : \E args \in Args(tool) : Invoke(1, tool, args)
  \/ \E o \in Outcomes(call[1].tool) : Settle(1, o)
  \/ Reply(1)

Spec == Init /\ [][Next]_vars

\* the host dispatches calls concurrently
NextConcurrent ==
  \/ \E c \in Calls, tool \in Tools : \E args \in FewArgs(tool) : Invoke(c, tool, args)
  \/ \E c \in Calls : \E o \in FewOutcomes(call[c].tool) : Settle(c, o)
  \/ \E c \in Calls : Reply(c)

SpecConcurrent == Init /\ [][NextConcurrent]_vars

\* what a pagination header of a response may hold: nothing, zero, a positive
\* number, a negative number, text that is no number
HeaderValues == {<<>>, <<"0">>, <<"3">>, <<"-", "1">>, <<"x">>}

\* response.headers: every choice of the pagination headers that are sent,
\* each with one of the values
WideHeaders == UNION {[S -> HeaderValues] : S \in SUBSET HeaderNames}

\* one page of the listing the tool asks for
APage(tool) ==
  CASE tool = "list_projects" -> ArrayData(<<RemoteProject1>>)
    [] tool = "get_issues" -> ArrayData(<<RemoteIssue1>>)
    [] tool = "get_issue_notes" -> ArrayData(<<RemoteNote1>>)
    [] OTHER -> ArrayData(<<RemoteObject>>)

PageOutcomes(tool) ==
  IF tool \in PaginatedTools
  THEN {Fulfilled(h, APage(tool)) : h \in WideHeaders}
  ELSE FewOutcomes(tool)

\* one call at a time, answered with any pagination headers
NextPaginated ==
  \/ \E tool \in Tools : \E args \in FewArgs(tool) : Invoke(1, tool, args)
  \/ pc[1] = "awaiting" /\ \E o \in PageOutcomes(call[1].tool) : Settle(1, o)
  \/ Reply(1)

SpecPaginated == Init /\ [][NextPaginated]_vars

(* --------------------------- src/src/index.ts: a caller reading page by page *)

\* a page number below ten as a header value
NumeralOf(n) == <<ToString(n)>>

\* the one item of page p of the remote listing
PageItem(p) == [id |-> p, body |-> "b", author |-> User("ann")]

\* The headers the remote sends with page p of a listing of n pages:
\* x-next-page holds p + 1 before the last page and is empty on it;
\* x-total-pages is sent only by some endpoints.
RemotePageHeaders(n, total, p) ==
  [k \in {"x-page", "x-per-page", "x-next-page"}
            \cup (IF total THEN {"x-total-pages"} ELSE {}) |->
     CASE k = "x-page" -> NumeralOf(p)
       [] k = "x-per-page" -> <<"1", "0", "0">>
       [] k = "x-next-page" -> IF p < n THEN NumeralOf(p + 1) ELSE <<>>
       [] k = "x-total-pages" -> NumeralOf(n)]

RemotePage(n, total, p) ==
  Fulfilled(RemotePageHeaders(n, total, p),
            IF p \in 1..n THEN ArrayData(<<PageItem(p)>>) ELSE ArrayData(<<>>))

\* the arguments the caller repeats with every page
CallerArgs(tool) == CHOOSE args \in FewArgs(tool) : ~Has(args, "page")

InitCaller ==
  /\ caller \in {Caller(tool, n, total) :
                   tool \in PaginatedTools, n \in 1..MaxRemotePages,
                   total \in BOOLEAN}
  /\ proc = Running(EnvOf("glpat"), EnvOf("https://gitlab.example"))
  /\ NoSlots

\* the caller invokes the tool for the page it wants next
Ask ==
  /\ ~caller.done
  /\ Invoke(1, caller.tool, Merge(CallerArgs(caller.tool), [page |-> caller.next]))

\* the remote answers with the page the request asks for
Answer ==
  /\ pc[1] = "awaiting"
  /\ Settle(1, RemotePage(caller.n, caller.total, request[1][1].params["page"]))

\* The caller takes the result: it keeps the page it was given and goes on
\* with pagination.next_page, or stops when the result has none.
Receive ==
  /\ pc[1] = "returned"
  /\ LET body == result[1][1]["content"][1]["text"].body
         more == "next_page" \in DOMAIN body.pagination.num
     IN  caller' = [caller EXCEPT
                      !.received = Append(@, body.data.items[1]["id"]),
                      !.next = IF more THEN body.pagination.num["next_page"] ELSE @,
                      !.done = ~more]
  /\ Deliver(1)
  /\ UNCHANGED loop

NextCaller == Ask \/ Answer \/ Receive

SpecCaller == InitCaller /\ [][NextCaller]_vars /\ WF_vars(NextCaller)

(* --------------------- src/unnamed/part_001: the handlers that fetch all pages *)

\* the page size the handlers ask for, and compare data.length with
FullPage == 100

\* A run of count items of page p of the remote listing that are alike; an
\* array is written as a sequence of such runs.
ItemRun(item, count) == [item |-> item, count |-> count]

\* array.length
RECURSIVE LengthOf(_)
LengthOf(runs) ==
  IF runs = <<>> THEN 0 ELSE Head(runs).count + LengthOf(Tail(runs))

\* the remote listing of n pages: every page before the last is full, the
\* last holds one item, and there is nothing after it
FetchPage(n, total, p) ==
  Fulfilled(RemotePageHeaders(n, total, p),
            IF p \in 1..n
            THEN ArrayData(<<ItemRun(PageItem(p), IF p < n THEN FullPage ELSE 1)>>)
            ELSE ArrayData(<<>>))

FetchAllTools == {"list_projects", "get_issues", "get_issue_notes"}

\* the request for page p: the handlers send the same path and parameters
\* as the one-page handlers, with their own page counter
FetchAllRequest(tool, args, p) == RequestOf(tool, Merge(args, [page |-> p]))

\* projects.map(...), issues.map(...), notes.map(...) over the runs
FetchAllShaped(tool, runs) ==
  [i \in 1..Len(runs) |->
     ItemRun(CASE tool = "list_projects" -> shapeProject(runs[i].item)
            [] tool = "get_issues" -> shapeIssue(runs[i].item)
            [] tool = "get_issue_notes" -> shapeNote(runs[i].item),
          runs[i].count)]

\* the handler is entered: it sets its locals and asks for page 1
FetchAllInvoke(c, tool, args) ==
  /\ Serving
  /\ pc[c] = "idle"
  /\ tool \in FetchAllTools
  /\ call' = [call EXCEPT
                ![c] = [tool |-> tool, hasArguments |-> TRUE, args |-> args]]
  /\ loop' = [loop EXCEPT ![c] = FirstPage]
  /\ IF BuildThrows(tool, args)
     THEN LET error == JsError("URIError", "URI malformed")
          IN  /\ result' = [result EXCEPT ![c] = Append(@, handleApiError(error))]
              /\ log' = [log EXCEPT ![c] = @ \o handleApiErrorLog(error)]
              /\ pc' = [pc EXCEPT ![c] = "returned"]
              /\ UNCHANGED request
     ELSE /\ request' = [request EXCEPT ![c] = Append(@, FetchAllRequest(tool, args, 1))]
          /\ pc' = [pc EXCEPT ![c] = "awaiting"]
          /\ UNCHANGED <<result, log>>
  /\ UNCHANGED <<outcome, fault, proc, caller>>

\* The awaited request settles and the do-while body runs on: the items are
\* appended; x-total-pages, when sent, sets totalPages, and without it a
\* page shorter than 100 items breaks the loop; then page++ and the test
\* `page <= totalPages` decide between the next request and the return.
FetchAllSettle(c, o) ==
  /\ Alive
  /\ pc[c] = "awaiting"
  /\ outcome' = [outcome EXCEPT ![c] = o]
  /\ LET tool == call[c].tool
         items == loop[c].items \o o.data.items
         header == HeaderOr(o.headers, "x-total-pages", <<>>)
         totalPages == IF header # <<>> THEN parseInt(header) ELSE loop[c].totalPages
         break == header = <<>> /\ LengthOf(o.data.items) < FullPage
         page == loop[c].page + 1
         again == ~break /\ ~totalPages.nan /\ page <= totalPages.n
     IN  IF o.kind = "error"
         THEN /\ result' = [result EXCEPT ![c] = Append(@, handleApiError(o.error))]
              /\ log' = [log EXCEPT ![c] = @ \o handleApiErrorLog(o.error)]
              /\ pc' = [pc EXCEPT ![c] = "returned"]
              /\ UNCHANGED <<request, loop>>
         ELSE IF again
         THEN /\ request' = [request EXCEPT
                               ![c] = Append(@, FetchAllRequest(tool, call[c].args, page))]
              /\ loop' = [loop EXCEPT ![c] = Locals(page, totalPages, items)]
              /\ UNCHANGED <<result, log, pc>>
         ELSE /\ result' = [result EXCEPT
                              ![c] = Append(@, Success(Json(ArrayData(
                                       FetchAllShaped(tool, items)))))]
              /\ loop' = [loop EXCEPT
                            ![c] = Locals(IF break THEN loop[c].page ELSE page,
                                          totalPages, items)]
              /\ pc' = [pc EXCEPT ![c] = "returned"]
              /\ UNCHANGED <<request, log>>
  /\ UNCHANGED <<call, fault, proc, caller>>

\* the remote listings the handlers are run against
InitFetchAll ==
  /\ caller \in {Caller(tool, n, total) :
                   tool \in FetchAllTools, n \in 1..MaxRemotePages,
                   total \in BOOLEAN}
  /\ proc = Running(EnvOf("glpat"), EnvOf("https://gitlab.example"))
  /\ NoSlots

\* how the request for the page last asked for can settle
FetchOutcomes(c) ==
  {FetchPage(caller.n, caller.total, loop[c].page),
   Rejected(AxiosStatusError(401, TRUE, "denied")),
   Rejected(AxiosNetworkError("Network Error"))}

NextFetchAll ==
  \/ FetchAllInvoke(1, caller.tool, CallerArgs(caller.tool))
  \/ \E o \in FetchOutcomes(1) : FetchAllSettle(1, o)
  \/ Reply(1)

SpecFetchAll == InitFetchAll /\ [][NextFetchAll]_vars

(* ------------------------------------- src/src/index.ts: the process *)

\* what GITLAB_API_TOKEN and GITLAB_HOST may hold when the process starts
Tokens == {Unset, EnvOf(""), EnvOf("glpat")}

Hosts == {Unset, EnvOf(""), EnvOf("https://gitlab.example")}

InitProcess ==
  /\ proc \in {Process("loading", t, h) : t \in Tokens, h \in Hosts}
  /\ caller = NoCaller
  /\ NoSlots

\* the server starts although the token is missing
LoadModuleHostOnly ==
  /\ proc.phase = "loading"
  /\ proc' = IF Missing(proc.host)
             THEN [proc EXCEPT !.phase = "failed", !.exit = "1"]
             ELSE [proc EXCEPT !.phase = "checked"]
  /\ UNCHANGED <<pc, call, request, outcome, result, fault, log, caller, loop>>

\* The module's top-level code reads the two environment variables and
\* throws when one is missing: the uncaught exception ends the process.
LoadModule ==
  /\ proc.phase = "loading"
  /\ proc' = IF Missing(proc.token) \/ Missing(proc.host)
             THEN [proc EXCEPT !.phase = "failed", !.exit = "1"]
             ELSE [proc EXCEPT !.phase = "checked"]
  /\ UNCHANGED <<pc, call, request, outcome, result, fault, log, caller, loop>>

\* new GitlabServer(): the McpServer, the axios instance, the eight tools
Construct ==
  /\ proc.phase = "checked"
  /\ proc' = [proc EXCEPT !.phase = "constructed",
                          !.client = CreateClient(proc.host, proc.token),
                          !.registered = TRUE]
  /\ UNCHANGED <<pc, call, request, outcome, result, fault, log, caller, loop>>

\* server.run(): the server is connected to the stdio transport
Run ==
  /\ proc.phase = "constructed"
  /\ proc' = [proc EXCEPT !.phase = "running", !.connected = TRUE]
  /\ UNCHANGED <<pc, call, request, outcome, result, fault, log, caller, loop>>

\* SIGINT arrives. No listener is installed for it, so the runtime's default
\* applies: the process is ended by the signal at once, whatever is open or
\* in flight.
Interrupt ==
  /\ proc.exit = "none"
  /\ proc' = [proc EXCEPT !.phase = "exited", !.exit = "SIGINT"]
  /\ UNCHANGED <<pc, call, request, outcome, result, fault, log, caller, loop>>

\* the process from its start: one call at a time once it runs
NextProcess ==
  \/ LoadModule
  \/ Construct
  \/ Run
  \/ Interrupt
  \/ \E tool \in Tools : \E args \in FewArgs(tool) : Invoke(1, tool, args)
  \/ \E o \in FewOutcomes(call[1].tool) : Settle(1, o)
  \/ Reply(1)

SpecProcess == InitProcess /\ [][NextProcess]_vars

(* ------------------- src/unnamed/part_000: the CallToolRequestSchema handler *)

\* a JSON value of the caller's arguments object, with its typeof; a string
\* is a sequence of characters or of longer tokens
Str(v) == [type |-> "string", v |-> v]

Num(v) == [type |-> "number", v |-> <<ToString(v)>>]

Bool(v) == [type |-> "boolean", v |-> <<ToString(v)>>]

\* typeof args[k] === "string"
IsString(args, k) == k \in DOMAIN args /\ args[k].type = "string"

isValidListProjectsArgs(args) == TRUE

isValidGetIssuesArgs(args) == IsString(args, "projectId")

isValidGetIssueNotesArgs(args) ==
  IsString(args, "projectId") /\ IsString(args, "issueIid")

isValidSearchArgs(args) == IsString(args, "scope") /\ IsString(args, "search")

isValidGetIssueArgs(args) ==
  IsString(args, "projectId") /\ IsString(args, "issueIid")

isValidGetTodosArgs(args) == TRUE

isValidGetWikiPageArgs(args) == IsString(args, "projectId") /\ IsString(args, "slug")

isValidListWikiPagesArgs(args) == IsString(args, "projectId")

isValidArgs(name, args) ==
  CASE name = "list_projects"   -> isValidListProjectsArgs(args)
    [] name = "get_issues"      -> isValidGetIssuesArgs(args)
    [] name = "get_issue_notes" -> isValidGetIssueNotesArgs(args)
    [] name = "search"          -> isValidSearchArgs(args)
    [] name = "get_issue"       -> isValidGetIssueArgs(args)
    [] name = "get_todos"       -> isValidGetTodosArgs(args)
    [] name = "get_wiki_page"   -> isValidGetWikiPageArgs(args)
    [] name = "list_wiki_pages" -> isValidListWikiPagesArgs(args)

\* the values of the members ks of the arguments object that are supplied
Values(args, ks) == [k \in ks \cap DOMAIN args |-> args[k].v]

\* the request each method of this build issues; no argument is encoded
LegacyRequestOf(name, args) ==
  CASE name = "list_projects" -> Get(<<"projects">>, [per_page |-> 100])
    [] name = "get_issues" ->
         Get(<<"projects", "/">> \o args["projectId"].v \o <<"/", "issues">>,
             [state |-> "opened"])
    [] name = "get_issue_notes" ->
         Get(<<"projects", "/">> \o args["projectId"].v \o <<"/", "issues", "/">>
               \o args["issueIid"].v \o <<"/", "notes">>, NoArgs)
    [] name = "search" -> Get(<<"search">>, Values(args, {"scope", "search"}))
    [] name = "get_issue" ->
         Get(<<"projects", "/">> \o args["projectId"].v \o <<"/", "issues", "/">>
               \o args["issueIid"].v, NoArgs)
    [] name = "get_todos" ->
         Get(<<"todos">>,
             Values(args, {"action", "author_id", "project_id", "group_id",
                           "state", "type"}))
    [] name = "get_wiki_page" ->
         Get(<<"projects", "/">> \o args["projectId"].v \o <<"/", "wikis", "/">>
               \o args["slug"].v, Values(args, {"render_html", "version"}))
    [] name = "list_wiki_pages" ->
         Get(<<"projects", "/">> \o args["projectId"].v \o <<"/", "wikis">>,
             Values(args, {"with_content"}))

LegacyShapeProject(project) == Pick(project, {"id", "name", "description", "web_url"})

LegacyShapeIssue(issue) ==
  Pick(issue, {"iid", "title", "description", "state", "web_url"})

\* author: note.author.name
LegacyShapeNote(note) ==
  Merge(Pick(note, {"id", "body", "created_at"}),
        IF "author" \in DOMAIN note /\ "name" \in DOMAIN note["author"]
        THEN [author |-> note["author"]["name"]] ELSE NoArgs)

LegacySuccessOf(name, response) ==
  CASE name = "list_projects" ->
         Success(Json(ArrayData(MapSeq(LegacyShapeProject, response.data.items))))
    [] name = "get_issues" ->
         Success(Json(ArrayData(MapSeq(LegacyShapeIssue, response.data.items))))
    [] name = "get_issue_notes" ->
         Success(Json(ArrayData(MapSeq(LegacyShapeNote, response.data.items))))
    [] OTHER -> Success(Json(response.data))

LegacyNotFound(name) ==
  CASE name \in {"list_wiki_pages", "get_wiki_page"} ->
         "Not Found: The project or wiki page was not found."
    [] name \in {"search", "get_issue_notes"} ->
         "Not Found: The project, issue or note was not found."
    [] OTHER -> "Not Found: The project or issue was not found."

\* the text of the isAxiosError branch of each method's catch block
LegacySpecificMessage(name, error) ==
  IF name = "list_projects" THEN "GitLab API error: " \o errorMessage(error)
  ELSE IF error.hasResponse /\ error.status = 401
  THEN "Unauthorized: Please check your GitLab API token."
  ELSE IF error.hasResponse /\ error.status = 403
  THEN "Forbidden: You don't have permission to access this resource."
  ELSE IF error.hasResponse /\ error.status = 404
  THEN LegacyNotFound(name)
  ELSE "GitLab API error: " \o errorMessage(error)

\* The request handler: the arguments object is required, then the tool is
\* looked up by name, its arguments are checked by the tool's isValid...Args
\* and the tool's method runs up to its awaited request.
CallTool(c, name, hasArguments, arguments) ==
  /\ Serving
  /\ pc[c] = "idle"
  /\ call' = [call EXCEPT
                ![c] = [tool |-> name, hasArguments |-> hasArguments,
                        args |-> arguments]]
  /\ IF ~hasArguments
     THEN /\ fault' = [fault EXCEPT ![c] = "InvalidParams"]
          /\ pc' = [pc EXCEPT ![c] = "faulted"]
          /\ UNCHANGED request
     ELSE IF name \notin Tools
     THEN /\ fault' = [fault EXCEPT ![c] = "MethodNotFound"]
          /\ pc' = [pc EXCEPT ![c] = "faulted"]
          /\ UNCHANGED request
     ELSE IF ~isValidArgs(name, arguments)
     THEN /\ fault' = [fault EXCEPT ![c] = "InvalidParams"]
          /\ pc' = [pc EXCEPT ![c] = "faulted"]
          /\ UNCHANGED request
     ELSE /\ request' = [request EXCEPT ![c] = Append(@, LegacyRequestOf(name, arguments))]
          /\ pc' = [pc EXCEPT ![c] = "awaiting"]
          /\ UNCHANGED fault
  /\ UNCHANGED <<outcome, result, log>>
  /\ UNCHANGED <<proc, caller, loop>>

\* The awaited request settles: the method returns its text, or its catch
\* block turns an axios error into an error envelope and passes anything else
\* on (`throw error`); listProjects alone answers that with an envelope too.
LegacySettle(c, o) ==
  /\ Alive
  /\ pc[c] = "awaiting"
  /\ outcome' = [outcome EXCEPT ![c] = o]
  /\ LET name == call[c].tool
         error == ErrorOf(name, o)
     IN  IF ~Caught(name, o)
         THEN /\ result' = [result EXCEPT ![c] = Append(@, LegacySuccessOf(name, o))]
              /\ pc' = [pc EXCEPT ![c] = "returned"]
              /\ UNCHANGED fault
         ELSE IF error.isAxiosError
         THEN /\ result' = [result EXCEPT
                              ![c] = Append(@, Failure(Plain(
                                       LegacySpecificMessage(name, error))))]
              /\ pc' = [pc EXCEPT ![c] = "returned"]
              /\ UNCHANGED fault
         ELSE IF name = "list_projects"
         THEN /\ result' = [result EXCEPT
                              ![c] = Append(@, Failure(Plain(
                                       "An unexpected error occurred: "
                                         \o ErrorToString(error))))]
              /\ pc' = [pc EXCEPT ![c] = "returned"]
              /\ UNCHANGED fault
         ELSE /\ fault' = [fault EXCEPT ![c] = "InternalError"]
              /\ pc' = [pc EXCEPT ![c] = "faulted"]
              /\ UNCHANGED result
  /\ UNCHANGED <<call, request, log>>
  /\ UNCHANGED <<proc, caller, loop>>

\* the schema each tool declares in the ListTools answer: the required
\* members, and the type of each declared member
DeclaredRequired(name) ==
  CASE name \in {"list_projects", "get_todos"} -> {}
    [] name \in {"get_issues", "list_wiki_pages"} -> {"projectId"}
    [] name \in {"get_issue_notes", "get_issue"} -> {"projectId", "issueIid"}
    [] name = "search" -> {"scope", "search"}
    [] name = "get_wiki_page" -> {"projectId", "slug"}

DeclaredTypes(name) ==
  CASE name = "list_projects" -> NoArgs
    [] name = "get_issues" -> [projectId |-> "string"]
    [] name \in {"get_issue_notes", "get_issue"} ->
         [projectId |-> "string", issueIid |-> "string"]
    [] name = "search" -> [scope |-> "string", search |-> "string"]
    [] name = "get_todos" ->
         [action |-> "string", author_id |-> "number", project_id |-> "number",
          group_id |-> "number", state |-> "string", type |-> "string"]
    [] name = "get_wiki_page" ->
         [projectId |-> "string", slug |-> "string", render_html |-> "boolean",
          version |-> "string"]
    [] name = "list_wiki_pages" ->
         [projectId |-> "string", with_content |-> "boolean"]

\* enum of the scope member of search
DeclaredScopes ==
  {<<s>> : s \in {"projects", "issues", "merge_requests", "milestones",
                  "snippet_titles", "users", "wiki_blobs", "commits", "blobs",
                  "notes"}}

\* the arguments object satisfies the tool's declared inputSchema
DeclaredValid(name, args) ==
  /\ DeclaredRequired(name) \subseteq DOMAIN args
  /\ \A k \in (DOMAIN args) \cap DOMAIN DeclaredTypes(name) :
       /\ args[k].type = DeclaredTypes(name)[k]
       /\ name = "search" /\ k = "scope" => args[k].v \in DeclaredScopes

\* the arguments objects a caller sends
GoodBag ==
  [projectId |-> Str(<<"9">>), issueIid |-> Str(<<"5">>), slug |-> Str(<<"a">>),
   scope |-> Str(<<"issues">>), search |-> Str(<<"bug">>), author_id |-> Num(4),
   render_html |-> Bool(TRUE)]

LegacyBags ==
  {NoArgs, GoodBag}
    \cup {Without(GoodBag, k) : k \in {"projectId", "issueIid", "slug", "scope"}}
    \cup {[GoodBag EXCEPT !["projectId"] = Num(9)],
          [GoodBag EXCEPT !["scope"] = Str(<<"everything">>)],
          [GoodBag EXCEPT !["author_id"] = Str(<<"ann">>)],
          [GoodBag EXCEPT !["render_html"] = Str(<<"yes">>)]}

ToolNames == Tools \cup {"delete_project"}

NextLegacy ==
  \/ \E name \in ToolNames :
       \/ CallTool(1, name, FALSE, NoArgs)
       \/ \E arguments \in LegacyBags : CallTool(1, name, TRUE, arguments)
  \/ \E o \in Outcomes(call[1].tool) : LegacySettle(1, o)
  \/ Reply(1)

SpecLegacy == Init /\ [][NextLegacy]_vars

(* ================================================================ claims *)

Returned(c) == pc[c] = "returned"

\* the envelope the invocation in slot c returned
Envelope(c) == result[c][1]

\* the invocation in slot c ended in its catch block
Failed(c) ==
  /\ Returned(c)
  /\ \/ BuildThrows(call[c].tool, call[c].args)
     \/ Caught(call[c].tool, outcome[c])

\* the request of slot c was rejected with an HTTP status
HttpFailure(c) ==
  Returned(c) /\ outcome[c].kind = "error" /\ outcome[c].error.hasResponse

\* the request of slot c was rejected without any HTTP response
NetworkFailure(c) ==
  Returned(c) /\ outcome[c].kind = "error" /\ ~outcome[c].error.hasResponse

\* the invocation of slot c raised something that is not an axios error
Exception(c) ==
  /\ Returned(c)
  /\ \/ BuildThrows(call[c].tool, call[c].args)
     \/ outcome[c].kind = "response" /\ ShapeThrows(call[c].tool, outcome[c].data)

HasText(env, s) == TextOf(env).fmt = "plain" /\ TextOf(env).body = s

C2_Original ==
  \A c \in Calls :
    HttpFailure(c) /\ outcome[c].status = 401 =>
      IsError(Envelope(c)) /\ HasText(Envelope(c), "Unauthorized: check access token")

\* C2 (amended): on HTTP 401 every one of the eight tools returns an envelope
\* with isError = true whose text is exactly "Unauthorized: Please check your
\* GitLab API token.", whatever message the response body carries, and no fault.
C2_Unauthorized ==
  \A c \in Calls :
    HttpFailure(c) /\ outcome[c].status = 401 =>
      /\ fault[c] = "none"
      /\ Len(result[c]) = 1
      /\ IsError(Envelope(c))
      /\ HasText(Envelope(c), "Unauthorized: Please check your GitLab API token.")

C2_Witness ==
  /\ HttpFailure(1)
  /\ outcome[1].status = 401
  /\ outcome[1].error.hasBodyMessage
  /\ call[1].tool = "list_wiki_pages"
  /\ IsError(Envelope(1))

\* C3 as claimed: on HTTP 404 get_issue answers with isError = true and the
\* text "Not found: the requested resource does not exist".
C3_Original ==
  \A c \in Calls :
    HttpFailure(c) /\ outcome[c].status = 404 /\ call[c].tool = "get_issue" =>
      /\ IsError(Envelope(c))
      /\ HasText(Envelope(c), "Not found: the requested resource does not exist")

\* C3 (amended): on HTTP 404 get_issue returns an envelope with isError = true
\* whose text is exactly "Not Found: The requested resource was not found.",
\* whatever message the response body carries, and no fault.
C3_NotFound ==
  \A c \in Calls :
    HttpFailure(c) /\ outcome[c].status = 404 /\ call[c].tool = "get_issue" =>
      /\ fault[c] = "none"
      /\ Len(result[c]) = 1
      /\ IsError(Envelope(c))
      /\ HasText(Envelope(c), "Not Found: The requested resource was not found.")

C3_Witness ==
  /\ HttpFailure(1)
  /\ outcome[1].status = 404
  /\ outcome[1].error.hasBodyMessage
  /\ call[1].tool = "get_issue"
  /\ IsError(Envelope(1))

OtherStatus(c) == HttpFailure(c) /\ outcome[c].status \notin {401, 403, 404}

\* the message the claim speaks of: the body's message when the body has one,
\* the transport-level message otherwise
ClaimedMessage(error) ==
  IF error.hasBodyMessage THEN error.bodyMessage ELSE error.message

\* C4 as claimed: for another HTTP status the text is "Remote API error: "
\* followed by the body's message, or by the transport-level message.
C4_Original ==
  \A c \in Calls :
    OtherStatus(c) =>
      /\ IsError(Envelope(c))
      /\ HasText(Envelope(c), "Remote API error: " \o ClaimedMessage(outcome[c].error))

\* C4 (amended): for an HTTP failure whose status is none of 401, 403, 404 the
\* envelope has isError = true and its text is "GitLab API error: " followed by
\* the message member of the response body when the body has one, and by the
\* transport-level error message otherwise; the body's message takes precedence.
C4_OtherStatus ==
  \A c \in Calls :
    OtherStatus(c) =>
      /\ IsError(Envelope(c))
      /\ HasText(Envelope(c), "GitLab API error: " \o ClaimedMessage(outcome[c].error))

C4_Witness ==
  /\ OtherStatus(1)
  /\ outcome[1].status = 500
  /\ outcome[1].error.hasBodyMessage
  /\ outcome[1].error.bodyMessage # outcome[1].error.message
  /\ HasText(Envelope(1), "GitLab API error: denied")

\* C5 as claimed: a failure without HTTP response (a network failure of the
\* request) is logged and surfaced as "An unexpected error occurred: " followed
\* by its description, not under the HTTP-failure messages.
C5_Original ==
  \A c \in Calls :
    NetworkFailure(c) =>
      /\ IsError(Envelope(c))
      /\ log[c] # <<>>
      /\ HasText(Envelope(c),
                 "An unexpected error occurred: " \o ErrorToString(outcome[c].error))

\* C5 (amended): a failure that is not an axios error (an exception raised
\* while building the request or shaping the response) is logged once and then
\* surfaced as an envelope with isError = true whose text is "An unexpected
\* error occurred: " followed by the failure's description; a network-level
\* failure of the request is an axios error without response: it is not logged
\* and is surfaced as "GitLab API error: " followed by the transport message.
C5_UnexpectedError ==
  \A c \in Calls :
    /\ Exception(c) =>
         LET error == IF BuildThrows(call[c].tool, call[c].args)
                      THEN JsError("URIError", "URI malformed")
                      ELSE ShapeError(call[c].tool, outcome[c].data)
         IN  /\ IsError(Envelope(c))
             /\ log[c] = <<ErrorToString(error)>>
             /\ HasText(Envelope(c),
                        "An unexpected error occurred: " \o ErrorToString(error))
    /\ NetworkFailure(c) =>
         /\ IsError(Envelope(c))
         /\ log[c] = <<>>
         /\ HasText(Envelope(c), "GitLab API error: " \o outcome[c].error.message)

C5_Witness ==
  /\ NetworkFailure(1)
  /\ HasText(Envelope(1), "GitLab API error: Network Error")
  /\ log[1] = <<>>

Issued(c) == request[c] # <<>>

\* search is given a projectId: a non-empty one (the handler takes the empty
\* string for none)
SearchInProject(args) == Has(args, "projectId") /\ args["projectId"] # <<>>

\* the arguments the claim covers, each with the number of the path segment
\* that is to hold it ("projects" is segment 1)
IdSegments(tool, args) ==
  CASE tool \in {"get_issue_notes", "get_issue", "list_wiki_pages"} ->
         {<<2, args["projectId"]>>}
    [] tool = "search" ->
         IF SearchInProject(args) THEN {<<2, args["projectId"]>>} ELSE {}
    [] tool = "get_wiki_page" -> {<<2, args["projectId"]>>, <<4, args["slug"]>>}
    [] OTHER -> {}

\* the number of segments of the tool's path template
TemplateSegments(tool, args) ==
  CASE tool = "get_issue_notes" -> 5
    [] tool \in {"get_issue", "get_wiki_page"} -> 4
    [] tool = "list_wiki_pages" -> 3
    [] tool = "search" -> IF SearchInProject(args) THEN 3 ELSE 1

\* C8: for every tool that takes projectId or slug and every value of them,
\* the request path holds the percent-encoded value as one path segment, and
\* decoding that segment gives the value back.
C8_Original ==
  \A c \in Calls :
    Issued(c) =>
      LET tool == call[c].tool
          args == call[c].args
          segs == Segments(request[c][1].path)
      IN  \A iv \in IdSegments(tool, args) :
            /\ Len(segs) = TemplateSegments(tool, args)
            /\ segs[iv[1]] = encodeURIComponent(iv[2])
            /\ decodeURIComponent(segs[iv[1]]) = iv[2]

Started(c) == pc[c] \in {"awaiting", "returned"}

\* C9 as claimed: every validated invocation issues exactly one HTTP GET.
C9_Original == \A c \in Calls : Started(c) => Len(request[c]) = 1

\* C9 (amended): every tool invocation that passes validation issues at most
\* one HTTP GET request, and exactly one unless building the request path
\* raises (encodeURIComponent rejects a projectId or slug that is not
\* well-formed UTF-16; the invocation then returns an error envelope without
\* any request); whatever the response there is no retry after a failure and
\* no further request for following pages.
C9_OneGet ==
  \A c \in Calls :
    /\ Len(request[c]) <= 1
    /\ Started(c) =>
         Len(request[c]) = IF BuildThrows(call[c].tool, call[c].args) THEN 0 ELSE 1

C9_Witness ==
  /\ Returned(1)
  /\ call[1].tool = "search"
  /\ outcome[1].kind = "response"
  /\ outcome[1].headers = AllHeaders
  /\ "next_page" \in DOMAIN TextOf(Envelope(1)).body.pagination.num
  /\ Len(request[1]) = 1

Settled(c) == outcome[c].kind # "none"

\* C10 as claimed: a validated invocation yields exactly one envelope, and
\* only after its HTTP request has completed.
C10_Original ==
  \A c \in Calls :
    /\ Len(result[c]) <= 1
    /\ Returned(c) => Len(result[c]) = 1
    /\ pc[c] = "awaiting" => result[c] = <<>>
    /\ result[c] # <<>> => Issued(c) /\ Settled(c)

\* C10 (amended): each tool invocation that passes validation yields exactly
\* one result envelope; when it has issued its HTTP request it yields the
\* envelope only after that request has completed with a response or a
\* failure, and while the request is outstanding the adapter never times out,
\* cancels or answers on its own, so an invocation whose remote call never
\* completes never yields a result.  An invocation whose request path cannot
\* be built yields its error envelope without issuing any request.
C10_ResultAfterSettle ==
  \A c \in Calls :
    /\ Len(result[c]) <= 1
    /\ Returned(c) => Len(result[c]) = 1
    /\ pc[c] = "awaiting" => result[c] = <<>> /\ Issued(c) /\ ~Settled(c)
    /\ result[c] # <<>> /\ Issued(c) => Settled(c)
    /\ result[c] # <<>> /\ ~Issued(c) => BuildThrows(call[c].tool, call[c].args)

C10_Witness ==
  /\ Returned(1)
  /\ Issued(1)
  /\ Settled(1)
  /\ Len(result[1]) = 1
  /\ call[1].tool = "get_issue"

Rejected6(c) == pc[c] = "faulted" /\ fault[c] = "InvalidParams"

\* C6: arguments that fail the tool's declared schema (a required argument
\* missing, a wrong type, a value outside an enumerated set) are rejected with
\* the invalid-parameters fault before any HTTP request and without any result
\* envelope; a remote or transport failure is never reported as a fault.
C6_Original ==
  \A c \in Calls :
    /\ pc[c] # "idle" /\ call[c].tool \in Tools
         /\ ~DeclaredValid(call[c].tool, call[c].args) =>
           Rejected6(c) /\ request[c] = <<>> /\ result[c] = <<>>
    /\ outcome[c].kind = "error" => fault[c] = "none" /\ Returned(c)

\* C7: a call that names none of the eight tools is rejected with the
\* method-not-found fault, issues no HTTP request and produces no envelope.
C7_Original ==
  \A c \in Calls :
    pc[c] # "idle" /\ call[c].tool \notin Tools =>
      /\ pc[c] = "faulted"
      /\ fault[c] = "MethodNotFound"
      /\ request[c] = <<>>
      /\ result[c] = <<>>

(* ------------------------------------------------------ C11: the page size *)

UnpaginatedTools == Tools \ PaginatedTools

\* the query parameters of the request call c has issued
Params(c) == request[c][1].params

\* C11: the request of every paginated listing tool (list_projects,
\* get_issues, get_issue_notes, search, get_todos, list_wiki_pages) carries
\* per_page = 100 whatever arguments the caller supplied; the requests of
\* get_issue and get_wiki_page carry no per_page.
C11_PerPageIsFixed ==
  \A c \in Calls :
    Issued(c) =>
      /\ call[c].tool \in PaginatedTools =>
            Has(Params(c), "per_page") /\ Params(c)["per_page"] = 100
      /\ call[c].tool \in UnpaginatedTools => ~Has(Params(c), "per_page")

C11_Witness ==
  /\ Issued(1)
  /\ call[1].tool = "get_todos"
  /\ call[1].args = [project_id |-> 7, action |-> "assigned", page |-> 2]
  /\ Params(1)["per_page"] = 100

(* ------------------------------------------- C12: the pagination members *)

\* the invocation in slot c returned a paginated result
Paginated(c) ==
  /\ Returned(c)
  /\ call[c].tool \in PaginatedTools
  /\ outcome[c].kind = "response"
  /\ ~IsError(Envelope(c))

\* the pagination member of the result text
Pagination(c) == TextOf(Envelope(c)).body.pagination

PaginationFields ==
  {"current_page", "per_page", "total_pages", "total_items", "next_page"}

FieldHeader(f) ==
  CASE f = "current_page" -> "x-page"
    [] f = "per_page" -> "x-per-page"
    [] f = "total_pages" -> "x-total-pages"
    [] f = "total_items" -> "x-total"
    [] f = "next_page" -> "x-next-page"

\* the member is written, as a number or as null
Present(c, f) == f \in DOMAIN Pagination(c).num \/ f \in Pagination(c).null

\* the response of slot c has the header of field f, and it is not empty
Sent(c, f) ==
  /\ FieldHeader(f) \in DOMAIN outcome[c].headers
  /\ outcome[c].headers[FieldHeader(f)] # <<>>

\* what the header of field f parses to; no number when the header is absent
HeaderNumber(c, f) ==
  IF FieldHeader(f) \in DOMAIN outcome[c].headers
  THEN parseInt(outcome[c].headers[FieldHeader(f)])
  ELSE [nan |-> TRUE, n |-> 0]

\* the member is written as the number n
IsNumber(c, f, n) ==
  f \in DOMAIN Pagination(c).num /\ Pagination(c).num[f] = n

\* C12 as claimed: each of the five members is present only if its header
\* parses to a value greater than zero.
C12_Original ==
  \A c \in Calls :
    Paginated(c) =>
      \A f \in PaginationFields : Present(c, f) => Positive(HeaderNumber(c, f))

DefaultOf(f) == IF f = "current_page" THEN 1 ELSE 20

\* C12 (amended): total_pages, total_items and next_page are each present
\* only if their header parses to a value greater than zero, and are omitted,
\* never written as 0 or null, when the header is absent, empty, unparseable,
\* zero or negative; current_page and per_page are always present: each is
\* the number its header parses to, whatever its sign, the default 1
\* (current_page) or 20 (per_page) when the header is absent or empty, and
\* null when the header holds text that is no number.
C12_PaginationMembers ==
  \A c \in Calls :
    Paginated(c) =>
      /\ \A f \in {"total_pages", "total_items", "next_page"} :
            /\ Present(c, f) <=> Positive(HeaderNumber(c, f))
            /\ f \notin Pagination(c).null
            /\ Present(c, f) => Pagination(c).num[f] > 0
      /\ \A f \in {"current_page", "per_page"} :
            /\ Present(c, f)
            /\ ~Sent(c, f) => IsNumber(c, f, DefaultOf(f))
            /\ Sent(c, f) /\ HeaderNumber(c, f).nan => f \in Pagination(c).null
            /\ Sent(c, f) /\ ~HeaderNumber(c, f).nan =>
                  IsNumber(c, f, HeaderNumber(c, f).n)

C12_Witness ==
  /\ Paginated(1)
  /\ outcome[1].headers =
       [k \in {"x-page", "x-per-page", "x-total-pages"} |->
          CASE k = "x-page" -> <<"0">>
            [] k = "x-per-page" -> <<"x">>
            [] k = "x-total-pages" -> <<"x">>]
  /\ IsNumber(1, "current_page", 0)
  /\ "per_page" \in Pagination(1).null
  /\ ~Present(1, "total_pages")
  /\ ~Present(1, "total_items")

(* ------------------------------------ C13: a response without the headers *)

\* the response of slot c has none of the pagination headers
NoPaginationHeaders(c) == DOMAIN outcome[c].headers \cap HeaderNames = {}

\* C13: list_projects against a response that has none of the pagination
\* headers yields a pagination object that omits total_pages, total_items and
\* next_page and holds only current_page = 1 and per_page = 20.
C13_DefaultsOnly ==
  \A c \in Calls :
    Paginated(c) /\ call[c].tool = "list_projects" /\ NoPaginationHeaders(c) =>
      /\ Pagination(c).num = [current_page |-> 1, per_page |-> 20]
      /\ Pagination(c).null = {}

C13_Witness ==
  /\ Paginated(1)
  /\ call[1].tool = "list_projects"
  /\ call[1].args = [page |-> 2]
  /\ NoPaginationHeaders(1)
  /\ outcome[1].data = ArrayData(<<RemoteProject1, RemoteProject2>>)
  /\ DOMAIN Pagination(1).num = {"current_page", "per_page"}

(* --------------------------------------------- C14: what the page changes *)

\* the invocation in slot c was given a page and has issued its request
IssuedWithPage(c) == Issued(c) /\ Has(call[c].args, "page")

\* the arguments of slot c with page q in place of the page supplied
WithPage(c, q) == [call[c].args EXCEPT !["page"] = q]

\* two requests with the same path and the same parameters except page
SameButPage(r1, r2) ==
  /\ r1.path = r2.path
  /\ Without(r1.params, "page") = Without(r2.params, "page")

\* for every other page, the request is the one of slot c but for page
PageFrame(c) ==
  \A q \in Pages :
    SameButPage(request[c][1], RequestOf(call[c].tool, WithPage(c, q)))

\* C14 as claimed: invocations of a paginated tool that differ only in page
\* produce requests that differ only in the page parameter, and that
\* parameter is the page supplied.
C14_Original ==
  \A c \in Calls :
    IssuedWithPage(c) =>
      PageFrame(c) /\ Params(c)["page"] = call[c].args["page"]

\* the tools whose handler computes the parameter as `args.page || 1`
PageOrOneTools == {"list_projects", "get_issues", "get_todos"}

\* C14 (amended): invocations of a paginated tool that differ only in page
\* produce requests with the same path and the same query parameters except
\* page; the page parameter is the page supplied, except that list_projects,
\* get_issues and get_todos send page = 1 when the page supplied is 0.
C14_OnlyPageChanges ==
  \A c \in Calls :
    IssuedWithPage(c) =>
      /\ PageFrame(c)
      /\ Params(c)["page"] =
           IF call[c].tool \in PageOrOneTools /\ call[c].args["page"] = 0
           THEN 1 ELSE call[c].args["page"]

C14_Witness ==
  /\ IssuedWithPage(1)
  /\ call[1].tool = "get_issues"
  /\ call[1].args = [project_id |-> 7, state |-> "done", page |-> 2]
  /\ Params(1) = [state |-> "done", per_page |-> 100, page |-> 2]
  /\ RequestOf("get_issues", WithPage(1, 1)).params
       = [state |-> "done", per_page |-> 100, page |-> 1]

(* ------------------------------------ C15: next_page and total_pages *)

\* the header of field f was sent and parses to a number greater than zero
HeaderAboveZero(c, f) ==
  /\ FieldHeader(f) \in DOMAIN outcome[c].headers
  /\ ~HeaderNumber(c, f).nan
  /\ HeaderNumber(c, f).n > 0

\* C15: in every paginated result, next_page is present if and only if the
\* x-next-page header was present and parses to a value greater than zero,
\* and then equals that value; total_pages equals the x-total-pages value
\* when that is greater than zero.
C15_NextPageIffHeader ==
  \A c \in Calls :
    Paginated(c) =>
      /\ Present(c, "next_page") <=> HeaderAboveZero(c, "next_page")
      /\ HeaderAboveZero(c, "next_page") =>
            IsNumber(c, "next_page", HeaderNumber(c, "next_page").n)
      /\ HeaderAboveZero(c, "total_pages") =>
            IsNumber(c, "total_pages", HeaderNumber(c, "total_pages").n)

\* a last page: x-total-pages: 3 and an empty x-next-page
C15_Witness ==
  /\ Paginated(1)
  /\ call[1].tool = "search"
  /\ "x-total-pages" \in DOMAIN outcome[1].headers
  /\ outcome[1].headers["x-total-pages"] = <<"3">>
  /\ "x-next-page" \in DOMAIN outcome[1].headers
  /\ outcome[1].headers["x-next-page"] = <<>>
  /\ IsNumber(1, "total_pages", 3)
  /\ ~Present(1, "next_page")

(* ------------------------------------------------- C16: the path of search *)

\* the path the claim gives search: the project's when a projectId is
\* supplied (percent-encoded, as one segment), the global one otherwise
ClaimedSearchPath(args) ==
  IF Has(args, "projectId")
  THEN <<"projects", "/">> \o encodeURIComponent(args["projectId"])
         \o <<"/", "search">>
  ELSE <<"search">>

\* C16: search requests /projects/{projectId}/search when a projectId is
\* supplied and /search when none is, with query parameters exactly scope,
\* search, page (1 when page is not supplied) and per_page = 100.
C16_Original ==
  \A c \in Calls :
    Issued(c) /\ call[c].tool = "search" =>
      /\ request[c][1].path = ClaimedSearchPath(call[c].args)
      /\ Params(c) =
           [scope |-> call[c].args["scope"], search |-> call[c].args["search"],
            page |-> IF Has(call[c].args, "page") THEN call[c].args["page"] ELSE 1,
            per_page |-> 100]

\* C16 (amended): search requests /projects/{projectId}/search, with the
\* projectId percent-encoded, when a non-empty projectId is supplied, and
\* /search when none or an empty one is; the query parameters are exactly
\* scope, search, page (1 when page is not supplied) and per_page = 100; the
\* request is issued unless the projectId cannot be percent-encoded.
C16_SearchRequest ==
  \A c \in Calls :
    Started(c) /\ call[c].tool = "search" =>
      LET args == call[c].args
      IN  /\ Issued(c) <=>
                ~(SearchInProject(args) /\ URIMalformed(args["projectId"]))
          /\ Issued(c) =>
                /\ request[c][1].path =
                     IF SearchInProject(args)
                     THEN ClaimedSearchPath(args) ELSE <<"search">>
                /\ Params(c) =
                     [scope |-> args["scope"], search |-> args["search"],
                      page |-> IF Has(args, "page") THEN args["page"] ELSE 1,
                      per_page |-> 100]

\* search(scope="issues", search="login bug", projectId="9")
C16_Witness ==
  /\ Issued(1)
  /\ call[1].tool = "search"
  /\ call[1].args = [scope |-> "issues", search |-> "login bug", projectId |-> <<"9">>]
  /\ request[1][1].path = <<"projects", "/", "9", "/", "search">>
  /\ Params(1) = [scope |-> "issues", search |-> "login bug", page |-> 1,
                   per_page |-> 100]

(* --------------------------------------------- C17: the path of get_issues *)

\* C17: get_issues requests /projects/{project_id}/issues whenever a
\* project_id is supplied, for every numeric value of it, and /issues only
\* when no project_id is supplied.
C17_Original ==
  \A c \in Calls :
    Issued(c) /\ call[c].tool = "get_issues" =>
      request[c][1].path =
        IF Has(call[c].args, "project_id")
        THEN <<"projects", "/", ToString(call[c].args["project_id"]), "/", "issues">>
        ELSE <<"issues">>

(* ------------------------------------------- C18: the shape of a project *)

\* the items of the remote listing, and the items the result carries
RemoteItems(c) == outcome[c].data.items

EmittedItems(c) == TextOf(Envelope(c)).body.data.items

ProjectKeys == {"id", "name", "web_url", "path_with_namespace"}

\* every member of the emitted object is the remote object's, unchanged
Unchanged(emitted, remote, keys) ==
  \A k \in DOMAIN emitted \cap keys : k \in DOMAIN remote /\ emitted[k] = remote[k]

\* C18: for every remote project object, also one with extra unknown fields,
\* the object list_projects emits for it has its keys among id, name,
\* web_url, path_with_namespace, each holding the remote value unchanged, and
\* the emitted list has one entry per remote project, in the remote order.
C18_ProjectShape ==
  \A c \in Calls :
    Paginated(c) /\ call[c].tool = "list_projects" =>
      /\ Len(EmittedItems(c)) = Len(RemoteItems(c))
      /\ \A i \in 1..Len(RemoteItems(c)) :
            /\ DOMAIN EmittedItems(c)[i] \subseteq ProjectKeys
            /\ Unchanged(EmittedItems(c)[i], RemoteItems(c)[i], ProjectKeys)

C18_Witness ==
  /\ Paginated(1)
  /\ call[1].tool = "list_projects"
  /\ RemoteItems(1) = <<RemoteProject1, RemoteProject2>>
  /\ "description" \in DOMAIN RemoteItems(1)[1]
  /\ EmittedItems(1) =
       <<[id |-> 1, name |-> "n1", web_url |-> "w1", path_with_namespace |-> "g/p"],
         [id |-> 2, name |-> "n2"]>>

(* --------------------------------------------- C19: the shape of an issue *)

IssueKeys ==
  {"id", "iid", "project_id", "title", "state", "web_url", "created_at",
   "updated_at", "author", "assignees", "labels"}

\* the remote issue names its author by a username
HasAuthor(issue) ==
  "author" \in DOMAIN issue /\ "username" \in DOMAIN issue["author"]

\* emitted.assignees is the list of the usernames of remote.assignees
AssigneesAreUsernames(emitted, remote) ==
  /\ "assignees" \in DOMAIN remote
  /\ Len(emitted["assignees"]) = Len(remote["assignees"])
  /\ \A j \in 1..Len(remote["assignees"]) :
        emitted["assignees"][j] = assigneeUsername(remote["assignees"][j])

\* C19: for every remote issue object, the object get_issues emits for it has
\* its keys among id, iid, project_id, title, state, web_url, created_at,
\* updated_at, author, assignees, labels; author is the author's username
\* alone, and assignees is the list of the assignees' usernames alone, in the
\* remote order and of the same length.
C19_IssueShape ==
  \A c \in Calls :
    Paginated(c) /\ call[c].tool = "get_issues" =>
      /\ Len(EmittedItems(c)) = Len(RemoteItems(c))
      /\ \A i \in 1..Len(RemoteItems(c)) :
            LET emitted == EmittedItems(c)[i]
                remote  == RemoteItems(c)[i]
            IN  /\ DOMAIN emitted \subseteq IssueKeys
                /\ "author" \in DOMAIN emitted <=> HasAuthor(remote)
                /\ "author" \in DOMAIN emitted =>
                      emitted["author"] = remote["author"]["username"]
                /\ "assignees" \in DOMAIN emitted <=> "assignees" \in DOMAIN remote
                /\ "assignees" \in DOMAIN emitted =>
                      AssigneesAreUsernames(emitted, remote)

C19_Witness ==
  /\ Paginated(1)
  /\ call[1].tool = "get_issues"
  /\ RemoteItems(1) = <<RemoteIssue1, RemoteIssue2>>
  /\ EmittedItems(1)[1]["author"] = "ann"
  /\ EmittedItems(1)[1]["assignees"] = <<"bob", "cy">>
  /\ DOMAIN EmittedItems(1)[1] = IssueKeys
  /\ DOMAIN EmittedItems(1)[2] = {"id", "iid", "title"}

(* ------------------------------------------------ C20: unshaped payloads *)

\* the invocation in slot c returned a success envelope
Succeeded(c) ==
  Returned(c) /\ outcome[c].kind = "response" /\ ~IsError(Envelope(c))

\* C20: for get_issue, get_wiki_page, list_wiki_pages and get_todos the
\* result carries the full remote payload unshaped: the result text of the
\* two single-object tools is the payload, and the data member of the two
\* listing tools is the payload, nothing dropped, renamed or added.
C20_PayloadUnshaped ==
  \A c \in Calls :
    Succeeded(c) =>
      /\ call[c].tool \in {"get_issue", "get_wiki_page"} =>
            TextOf(Envelope(c)) = Json(outcome[c].data)
      /\ call[c].tool \in {"list_wiki_pages", "get_todos"} =>
            /\ TextOf(Envelope(c)).fmt = "json"
            /\ DOMAIN TextOf(Envelope(c)).body = {"data", "pagination"}
            /\ TextOf(Envelope(c)).body.data = outcome[c].data

C20_Witness ==
  /\ Succeeded(1)
  /\ call[1].tool = "get_todos"
  /\ outcome[1].data = ArrayData(<<RemoteObject, RemoteProject2>>)
  /\ EmittedItems(1) = <<RemoteObject, RemoteProject2>>

(* ------------------------------------------ C21: the shape of an envelope *)

\* the envelope has exactly one content block, of kind text
OneTextBlock(env) ==
  /\ Len(env["content"]) = 1
  /\ DOMAIN env["content"][1] = {"type", "text"}
  /\ env["content"][1]["type"] = "text"

\* C21 as claimed: every envelope, for a success or for a failure, has
\* exactly one content block, of kind text, whose text is pretty-printed JSON.
C21_Original ==
  \A c \in Calls :
    Returned(c) =>
      OneTextBlock(Envelope(c)) /\ TextOf(Envelope(c)).fmt = "json"

\* C21 (amended): every envelope has exactly one content block, of kind
\* text, and no member besides content and isError; the text of a success
\* envelope is pretty-printed JSON, the text of a failure envelope is the
\* plain error message, not JSON.
C21_EnvelopeShape ==
  \A c \in Calls :
    Returned(c) =>
      /\ Len(result[c]) = 1
      /\ OneTextBlock(Envelope(c))
      /\ DOMAIN Envelope(c) \subseteq {"content", "isError"}
      /\ TextOf(Envelope(c)).fmt = IF Failed(c) THEN "plain" ELSE "json"

C21_Witness ==
  /\ HttpFailure(1)
  /\ outcome[1].status = 500
  /\ OneTextBlock(Envelope(1))
  /\ TextOf(Envelope(1)) = Plain("GitLab API error: denied")

(* ------------------------------------------- C22: the startup configuration *)

\* C22: if GITLAB_API_TOKEN is absent or empty at startup, or GITLAB_HOST is
\* absent, the process fails before the HTTP client is built, before any
\* tool is registered and before the transport is connected: no tool call
\* is ever served and no HTTP request is ever issued.
C22_RefusesToStart ==
  Missing(proc.token) \/ ~proc.host.set =>
    /\ ~proc.client.built
    /\ ~proc.registered
    /\ ~proc.connected
    /\ proc.phase \in {"loading", "failed", "exited"}
    /\ \A c \in Calls : pc[c] = "idle" /\ request[c] = <<>> /\ result[c] = <<>>

C22_Witness ==
  /\ proc.token = EnvOf("")
  /\ proc.host = EnvOf("https://gitlab.example")
  /\ proc.phase = "failed"
  /\ proc.exit = "1"
  /\ ~proc.client.built

(* ------------------------------------------------ C23: the same answer *)

\* slots c and d hold returned invocations of get_issue with identical
\* arguments, answered by the same remote response
SameGetIssue(c, d) ==
  /\ Returned(c) /\ Returned(d)
  /\ call[c].tool = "get_issue" /\ call[d] = call[c]
  /\ outcome[d] = outcome[c]

\* C23: two invocations of get_issue with identical arguments, each answered
\* by the same remote response, produce identical result text, whatever
\* invocations came before them or run beside them.
C23_SameArgumentsSameText ==
  \A c, d \in Calls :
    SameGetIssue(c, d) =>
      /\ Len(result[c]) = 1 /\ Len(result[d]) = 1
      /\ TextOf(Envelope(c)) = TextOf(Envelope(d))
      /\ Envelope(c) = Envelope(d)

C23_Witness ==
  /\ SameGetIssue(1, 2)
  /\ call[1].args = [projectId |-> <<"a", "/">>, issueIid |-> <<"5">>]
  /\ outcome[1].data = ObjectData(RemoteIssue1)
  /\ TextOf(Envelope(1)) = Json(ObjectData(RemoteIssue1))
  /\ TextOf(Envelope(2)) = Json(ObjectData(RemoteIssue1))

(* ------------------------------------------- C24: invocations side by side *)

\* what the invocation of slot c returns when it runs alone and its request
\* gets the response of slot c
AloneResult(c) ==
  LET tool == call[c].tool
  IN  IF BuildThrows(tool, call[c].args)
      THEN handleApiError(JsError("URIError", "URI malformed"))
      ELSE IF Caught(tool, outcome[c])
      THEN handleApiError(ErrorOf(tool, outcome[c]))
      ELSE SuccessOf(tool, outcome[c])

\* C24: with several invocations in flight, in every interleaving of their
\* request and response steps each invocation sends its own request and
\* returns the result it would return alone against the same response, and
\* the shared client keeps the base URL and the credential header it was
\* built with.
C24_Independent ==
  /\ \A c \in Calls :
        /\ Issued(c) => request[c] = <<RequestOf(call[c].tool, call[c].args)>>
        /\ Returned(c) => result[c] = <<AloneResult(c)>>
  /\ proc.client = CreateClient(proc.host, proc.token)

\* two list_projects calls overlap: the first has its answer while the
\* second, for another page, still waits
C24_Witness ==
  /\ call[1].tool = "list_projects" /\ call[1].args = NoArgs
  /\ call[2].tool = "list_projects" /\ call[2].args = [page |-> 2]
  /\ pc[1] = "returned" /\ pc[2] = "awaiting"
  /\ Params(1)["page"] = 1 /\ Params(2)["page"] = 2
  /\ outcome[1].status = 401 /\ IsError(Envelope(1))
  /\ result[2] = <<>>

(* --------------------------------------------------- C25: the interrupt *)

\* C25: on an interrupt signal received while the server is running, the
\* process closes the protocol connection and only afterwards exits, with a
\* clean exit status: no step ends the process while the connection is open,
\* and a process that has served ends with status 0.
C25_Original ==
  [][/\ proc.connected => proc'.exit = "none"
     /\ proc.phase = "running" /\ proc'.exit # "none" => proc'.exit = "0"]_vars

(* ------------------------------------------ C26: reading page by page *)

\* the pages 1..k, in order
PagesUpTo(k) == [i \in 1..k |-> i]

\* C26: against a remote listing of N >= 1 pages that announces page p + 1
\* on every page p < N and no next page on page N, a caller who starts at
\* page 1 and goes on with pagination.next_page until a result has none
\* receives the pages 1..N each once, in increasing order, and stops after
\* exactly N invocations, with or without x-total-pages.
C26_CallerReadsEveryPage ==
  /\ [](/\ caller.received = PagesUpTo(Len(caller.received))
        /\ Len(caller.received) <= caller.n
        /\ caller.done <=> Len(caller.received) = caller.n)
  /\ <>caller.done

C26_Witness ==
  /\ caller.tool = "list_projects"
  /\ caller.n = 3
  /\ ~caller.total
  /\ caller.done
  /\ caller.received = <<1, 2, 3>>

(* ------------------------------------------- C27: fetching every page *)

\* the pages of the remote listing whose items the result holds, in order
FetchedPages(c) ==
  LET runs == TextOf(Envelope(c)).body.items
  IN  [i \in 1..Len(runs) |-> runs[i].item["id"]]

\* the pages the handler has asked for, in order
RequestedPages(c) == [i \in 1..Len(request[c]) |-> request[c][i].params["page"]]

\* C27: in the variant that fetches all pages, list_projects, get_issues and
\* get_issue_notes return the items of every page of the remote listing,
\* with x-total-pages (pages 1 up to the total) and without it (successive
\* pages until one holds fewer than 100 items).
C27_Original ==
  \A c \in Calls :
    Succeeded(c) =>
      /\ RequestedPages(c) = PagesUpTo(caller.n)
      /\ FetchedPages(c) = PagesUpTo(caller.n)

(* ------------------------------------------------ C28: the error flag *)

\* the request of slot c failed, or processing its response raised
RequestOrResponseFailed(c) ==
  \/ outcome[c].kind = "error"
  \/ outcome[c].kind = "response" /\ ShapeThrows(call[c].tool, outcome[c].data)

\* a success envelope has no error flag; an error envelope holds the message
\* text only, no data and no pagination
FlagAndText(c) ==
  /\ ~IsError(Envelope(c)) =>
        "isError" \notin DOMAIN Envelope(c) /\ TextOf(Envelope(c)).fmt = "json"
  /\ IsError(Envelope(c)) =>
        DOMAIN Envelope(c) = {"content", "isError"} /\ TextOf(Envelope(c)).fmt = "plain"

\* C28 as claimed: an envelope has isError = true if and only if the HTTP
\* request failed or processing its response raised.
C28_Original ==
  \A c \in Calls :
    Returned(c) =>
      /\ IsError(Envelope(c)) <=> RequestOrResponseFailed(c)
      /\ FlagAndText(c)

\* C28 (amended): an envelope has isError = true if and only if building the
\* request raised (no request is issued then), the HTTP request failed, or
\* processing its response raised; every success envelope has no error
\* flag, and every error envelope holds only the message text.
C28_ErrorFlag ==
  \A c \in Calls :
    Returned(c) =>
      /\ IsError(Envelope(c)) <=>
            \/ BuildThrows(call[c].tool, call[c].args) /\ request[c] = <<>>
            \/ Issued(c) /\ RequestOrResponseFailed(c)
      /\ FlagAndText(c)

C28_Witness ==
  /\ Returned(1)
  /\ call[1].tool = "search"
  /\ call[1].args =
       [scope |-> "issues", search |-> "login bug", projectId |-> <<LoneSurrogate>>]
  /\ request[1] = <<>>
  /\ outcome[1].kind = "none"
  /\ IsError(Envelope(1))
  /\ DOMAIN Envelope(1) = {"content", "isError"}

(* --------------------------------------- C29: a response that has no shape *)

\* the 2xx response of slot c cannot be shaped: its body is not a list, or
\* one of the notes has no author
NotShapeable(c) ==
  /\ Returned(c)
  /\ outcome[c].kind = "response"
  /\ call[c].tool \in {"list_projects", "get_issues", "get_issue_notes"}
  /\ \/ ~outcome[c].data.isArray
     \/ /\ call[c].tool = "get_issue_notes"
        /\ \E i \in 1..Len(outcome[c].data.items) :
              "author" \notin DOMAIN outcome[c].data.items[i]

\* the description of the TypeError the shaping raises
ShapingFault(c) ==
  IF ~outcome[c].data.isArray
  THEN "TypeError: response.data.map is not a function"
  ELSE "TypeError: Cannot read properties of undefined (reading 'username')"

C30_PageSent ==
  \A c \in Calls :
    Issued(c) /\ call[c].tool \in PaginatedTools =>
      LET args == call[c].args
          sent == Params(c)["page"]
      IN  /\ ~Has(args, "page") => sent = 1
          /\ Has(args, "page") /\ args["page"] = 0 =>
                sent = IF call[c].tool \in {"list_projects", "get_issues", "get_todos"}
                       THEN 1 ELSE 0
          /\ Has(args, "page") /\ args["page"] # 0 => sent = args["page"]

C30_Witness ==
  /\ Issued(1)
  /\ call[1].tool = "list_wiki_pages"
  /\ call[1].args = [projectId |-> <<"9">>, page |-> 0]
  /\ Params(1) = [page |-> 0, per_page |-> 100]

====
